---- MODULE Spec2Model ----
(***************************************************************************)
(* The event REST API of the calendar (server/routes/events.js over the    *)
(* Mongoose model server/models/Event.js) as a state machine.              *)
(*                                                                         *)
(* Instants are integers (milliseconds in the code); an Invalid Date is    *)
(* InvalidDate.  ObjectIds are 1, 2, ... in the order the store assigns    *)
(* them; MalformedId stands for any string ObjectId.isValid rejects.       *)
(* A value of a JSON body or of the query string is a record               *)
(* [t, n, s]: its JavaScript type t, its number n and its characters s.    *)
(***************************************************************************)
EXTENDS Integers, Sequences, FiniteSets, TLC

\* Bounds of the model.
MaxTime == 2
MaxEvents == 2
MaxClock == 1
\* The client's dates are whole ticks, so many to the minute (the code has
\* 60000 milliseconds to the minute).
TicksPerMinute == 2

\* The handler instances that can be in flight together.
Procs == {1, 2}

VARIABLES
    events,   \* the events collection: _id -> document
    nextId,   \* the next ObjectId the store assigns
    now,      \* the server's clock, Date.now()
    puts,     \* per handler instance, the PUT it is running
    last,     \* per handler instance, the response on its way to the client
    app,      \* the state of the App component
    calls,    \* per connection, the call of the App that waits for a response
    calc,     \* the last value computed by a function of the client
    form      \* the state of the EventModal component

\* the variables of the client
client == <<app, calls, calc, form>>

vars == <<events, nextId, now, puts, last, app, calls, calc, form>>

----------------------------------------------------------------------------
(* JavaScript values *)

Undef == [t |-> "undefined", n |-> 0, s |-> <<>>]
Null == [t |-> "null", n |-> 0, s |-> <<>>]
Str(s) == [t |-> "string", n |-> 0, s |-> s]
\* the ISO-8601 string of instant k
Iso(k) == [t |-> "isostring", n |-> k, s |-> <<>>]
Num(k) == [t |-> "number", n |-> k, s |-> <<>>]
Bool(b) == [t |-> "boolean", n |-> IF b THEN 1 ELSE 0, s |-> <<>>]
\* a Date object of instant k
DateOf(k) == [t |-> "date", n |-> k, s |-> <<>>]

IsString(v) == v.t \in {"string", "isostring"}

\* !v
Falsy(v) ==
    \/ v.t \in {"undefined", "null"}
    \/ v.t = "string" /\ v.s = <<>>
    \/ v.t = "number" /\ v.n = 0
    \/ v.t = "boolean" /\ v.n = 0

InvalidDate == -1
MalformedId == 0

\* new Date(v).getTime(), NaN as InvalidDate
NewDate(v) ==
    CASE v.t = "isostring" -> v.n
      [] v.t = "number" -> v.n
      [] v.t = "date" -> v.n
      [] v.t = "null" -> 0
      [] v.t = "boolean" -> v.n
      [] OTHER -> InvalidDate

\* isNaN(d.getTime())
IsNaN(d) == d = InvalidDate

\* a <= b, a < b and a > b on Dates: false when either is an Invalid Date
DateLE(a, b) == ~IsNaN(a) /\ ~IsNaN(b) /\ a <= b
DateLT(a, b) == ~IsNaN(a) /\ ~IsNaN(b) /\ a < b
DateGT(a, b) == ~IsNaN(a) /\ ~IsNaN(b) /\ a > b

IsSpace(c) == c = " "

\* String.prototype.trim
RECURSIVE TrimLeft(_)
TrimLeft(s) ==
    IF s # <<>> /\ IsSpace(Head(s)) THEN TrimLeft(Tail(s)) ELSE s

RECURSIVE TrimRight(_)
TrimRight(s) ==
    IF s # <<>> /\ IsSpace(s[Len(s)])
    THEN TrimRight(SubSeq(s, 1, Len(s) - 1))
    ELSE s

Trim(s) == TrimRight(TrimLeft(s))

\* a string of n characters
Chars(n) == [i \in 1..n |-> "x"]

\* ObjectIdIsValid that accepts every id
ObjectIdIsValidAlways(id) == TRUE

\* mongoose.Types.ObjectId.isValid(id)
ObjectIdIsValid(id) == id # MalformedId

----------------------------------------------------------------------------
(* The schema *)

TitleMaxLength == 200
DescriptionMaxLength == 1000
LocationMaxLength == 200
RecurringEnum ==
    {<<"n", "o", "n", "e">>, <<"d", "a", "i", "l", "y">>,
     <<"w", "e", "e", "k", "l", "y">>, <<"m", "o", "n", "t", "h", "l", "y">>,
     <<"y", "e", "a", "r", "l", "y">>}
DefaultColor == <<"#", "4", "2", "8", "5", "f", "4">>
DefaultRecurring == <<"n", "o", "n", "e">>

Fields ==
    {"title", "description", "startTime", "endTime", "allDay", "color",
     "location", "recurring"}

\* the body of a POST or PUT: every field the handlers destructure
Body(title, description, startTime, endTime, allDay, color, location, recurring) ==
    [title |-> title, description |-> description, startTime |-> startTime,
     endTime |-> endTime, allDay |-> allDay, color |-> color,
     location |-> location, recurring |-> recurring]

EmptyBody == Body(Undef, Undef, Undef, Undef, Undef, Undef, Undef, Undef)

\* the query string of GET /api/events
Query(startDate, endDate) == [startDate |-> startDate, endDate |-> endDate]

EmptyQuery == Query(Undef, Undef)

\* x || d
OrElse(x, d) == IF Falsy(x) THEN d ELSE x

\* the paths of a document or an update the schema's validators reject
\* (required, maxlength, enum); v maps each path to a value, Undef if unset
InvalidPaths(v) ==
    {f \in Fields :
        /\ v[f].t # "undefined"
        /\ \/ f = "title" /\ (v[f].t # "string" \/ Trim(v[f].s) = <<>>)
           \/ f = "title" /\ Len(Trim(v[f].s)) > TitleMaxLength
           \/ f = "description" /\ Len(v[f].s) > DescriptionMaxLength
           \/ f = "location" /\ Len(v[f].s) > LocationMaxLength
           \/ f = "recurring" /\ v[f].s \notin RecurringEnum
           \/ f \in {"startTime", "endTime"} /\ v[f].t = "null"}

\* the endTime validator of the schema, with the document (or, in an
\* update, the query) as `this`: thisStart is this.startTime
EndTimeValidator(thisStart, value) ==
    IF thisStart.t # "undefined" /\ value.t # "undefined"
    THEN DateGT(NewDate(value), NewDate(thisStart))
    ELSE TRUE

----------------------------------------------------------------------------
(* Requests and responses *)

\* res.status(status).json(...): error is the error text of a failure,
\* data the documents of the body (none for a null body)
Response(status, error, data) == [status |-> status, error |-> error, data |-> data]

\* what a handler instance remembers of the last request it answered
Answered(op, id, body, query, res) ==
    [op |-> op, id |-> id, body |-> body, query |-> query,
     status |-> res.status, error |-> res.error, data |-> res.data]

NoRequest == Answered("none", MalformedId, EmptyBody, EmptyQuery, Response(0, "", <<>>))

\* a handler instance that runs no PUT
IdlePut ==
    [pc |-> "idle", id |-> MalformedId, body |-> EmptyBody, existing |-> <<>>,
     updateData |-> EmptyBody @@ [updatedAt |-> Undef]]

\* handler instance p can take a request: it runs none, and the client has
\* received its last response
Ready(p) == puts[p].pc = "idle" /\ last[p] = NoRequest

\* Event.findById(id): the document, or none for null
FindById(id) == IF id \in DOMAIN events THEN <<events[id]>> ELSE <<>>

----------------------------------------------------------------------------
(* POST /api/events *)

\* new Event({...}) of lines 136-145, as the values of its paths
NewEventPaths(body, startDate, endDate) ==
    Body(Str(Trim(body.title.s)),
         OrElse(body.description, Str(<<>>)),
         DateOf(startDate),
         DateOf(endDate),
         OrElse(body.allDay, Bool(FALSE)),
         OrElse(body.color, Str(DefaultColor)),
         OrElse(body.location, Str(<<>>)),
         OrElse(body.recurring, Str(DefaultRecurring)))

\* the stored document of the paths v, with the defaults of createdAt and
\* updatedAt and the updatedAt of pre('save')
NewDocument(id, v, clock) ==
    [_id |-> id, title |-> v.title.s, description |-> v.description.s,
     startTime |-> v.startTime.n, endTime |-> v.endTime.n,
     allDay |-> v.allDay.n = 1, color |-> v.color.s, location |-> v.location.s,
     recurring |-> v.recurring.s, createdAt |-> clock, updatedAt |-> clock]

\* pre('save'): the error it passes to next, "" if none
PreSave(v) ==
    IF DateLE(v.endTime.n, v.startTime.n)
    THEN "End time must be after start time"
    ELSE ""

\* event.save(): validation, then pre('save'), then the insert; the name of
\* the error thrown, "" if the document is inserted
SaveError(v) ==
    IF InvalidPaths(v) # {} \/ ~EndTimeValidator(v.startTime, v.endTime)
    THEN "ValidationError"
    ELSE IF PreSave(v) # "" THEN "Error" ELSE ""

\* PostResponse without the comparison of the times of lines 122-126
PostResponseOfSave(body, id, clock) ==
    LET startDate == NewDate(body.startTime)
        endDate == NewDate(body.endTime)
        v == NewEventPaths(body, startDate, endDate)
    IN  IF Falsy(body.title) \/ Falsy(body.startTime) \/ Falsy(body.endTime)
        THEN Response(400, "Title, startTime, and endTime are required", <<>>)
        ELSE IF IsNaN(startDate)
        THEN Response(400, "Invalid startTime format", <<>>)
        ELSE IF IsNaN(endDate)
        THEN Response(400, "Invalid endTime format", <<>>)
        ELSE IF ~IsString(body.title)
        THEN Response(500, "title.trim is not a function", <<>>)
        ELSE IF Len(Trim(body.title.s)) = 0
        THEN Response(400, "Title cannot be empty", <<>>)
        ELSE IF Len(body.title.s) > TitleMaxLength
        THEN Response(400, "Title cannot exceed 200 characters", <<>>)
        ELSE IF SaveError(v) = "ValidationError"
        THEN Response(400, "Event validation failed", <<>>)
        ELSE IF SaveError(v) # ""
        THEN Response(500, PreSave(v), <<>>)
        ELSE Response(201, "", <<NewDocument(id, v, clock)>>)

\* the response of router.post('/') to body, were the document given id
PostResponse(body, id, clock) ==
    LET startDate == NewDate(body.startTime)
        endDate == NewDate(body.endTime)
        v == NewEventPaths(body, startDate, endDate)
    IN  IF Falsy(body.title) \/ Falsy(body.startTime) \/ Falsy(body.endTime)
        THEN Response(400, "Title, startTime, and endTime are required", <<>>)
        ELSE IF IsNaN(startDate)
        THEN Response(400, "Invalid startTime format", <<>>)
        ELSE IF IsNaN(endDate)
        THEN Response(400, "Invalid endTime format", <<>>)
        ELSE IF DateLE(endDate, startDate)
        THEN Response(400, "End time must be after start time", <<>>)
        ELSE IF ~IsString(body.title)
        THEN Response(500, "title.trim is not a function", <<>>)
        ELSE IF Len(Trim(body.title.s)) = 0
        THEN Response(400, "Title cannot be empty", <<>>)
        ELSE IF Len(body.title.s) > TitleMaxLength
        THEN Response(400, "Title cannot exceed 200 characters", <<>>)
        ELSE IF SaveError(v) = "ValidationError"
        THEN Response(400, "Event validation failed", <<>>)
        ELSE IF SaveError(v) # ""
        THEN Response(500, PreSave(v), <<>>)
        ELSE Response(201, "", <<NewDocument(id, v, clock)>>)

\* router.post('/') run by handler instance p
PostEvent(p, body) ==
    LET res == PostResponse(body, nextId, now)
    IN  /\ Ready(p)
        /\ res.status = 201 => nextId <= MaxEvents
        /\ IF res.status = 201
           THEN /\ events' = (nextId :> res.data[1]) @@ events
                /\ nextId' = nextId + 1
           ELSE UNCHANGED <<events, nextId>>
        /\ last' = [last EXCEPT ![p] = Answered("POST", MalformedId, body, EmptyQuery, res)]
        /\ UNCHANGED <<now, puts, client>>

----------------------------------------------------------------------------
(* PUT /api/events/:id *)

\* NewStartTime with the epoch in place of the stored start
NewStartTimeOfEpoch(body, existing) ==
    IF body.startTime.t # "undefined" THEN NewDate(body.startTime) ELSE 0

\* lines 192-193: the effective start and end of a partial update
NewStartTime(body, existing) ==
    IF body.startTime.t # "undefined" THEN NewDate(body.startTime) ELSE existing.startTime

NewEndTime(body, existing) ==
    IF body.endTime.t # "undefined" THEN NewDate(body.endTime) ELSE existing.endTime

\* lines 210-221: the update document
UpdateData(body, existing, clock) ==
    [title |-> body.title,
     description |-> body.description,
     startTime |-> IF body.startTime.t # "undefined"
                   THEN DateOf(NewStartTime(body, existing)) ELSE Undef,
     endTime |-> IF body.endTime.t # "undefined"
                 THEN DateOf(NewEndTime(body, existing)) ELSE Undef,
     allDay |-> body.allDay,
     color |-> body.color,
     location |-> body.location,
     recurring |-> body.recurring,
     updatedAt |-> Num(clock)]

\* PutValidation that compares the times only when the body has both
PutValidationOfBoth(body, existing) ==
    LET newStartTime == NewStartTime(body, existing)
        newEndTime == NewEndTime(body, existing)
    IN  IF /\ body.startTime.t # "undefined" /\ body.endTime.t # "undefined"
           /\ DateLE(newEndTime, newStartTime)
        THEN Response(400, "End time must be after start time", <<>>)
        ELSE IF body.startTime.t # "undefined" /\ IsNaN(newStartTime)
        THEN Response(400, "Invalid startTime format", <<>>)
        ELSE IF body.endTime.t # "undefined" /\ IsNaN(newEndTime)
        THEN Response(400, "Invalid endTime format", <<>>)
        ELSE Response(0, "", <<>>)

\* lines 195-208: the response that ends the PUT before any write, or a
\* response of status 0 if the handler goes on to the write
PutValidation(body, existing) ==
    LET newStartTime == NewStartTime(body, existing)
        newEndTime == NewEndTime(body, existing)
    IN  IF DateLE(newEndTime, newStartTime)
        THEN Response(400, "End time must be after start time", <<>>)
        ELSE IF body.startTime.t # "undefined" /\ IsNaN(newStartTime)
        THEN Response(400, "Invalid startTime format", <<>>)
        ELSE IF body.endTime.t # "undefined" /\ IsNaN(newEndTime)
        THEN Response(400, "Invalid endTime format", <<>>)
        ELSE Response(0, "", <<>>)

\* pre(['findOneAndUpdate', 'findByIdAndUpdate']): the error it passes to
\* next, "" if none
PreFindOneAndUpdate(update) ==
    IF update.endTime.t # "undefined" /\ update.startTime.t # "undefined"
    THEN LET endTime == NewDate(update.endTime)
             startTime == NewDate(update.startTime)
         IN  IF IsNaN(endTime) \/ IsNaN(startTime)
             THEN "Invalid date format"
             ELSE IF DateLE(endTime, startTime)
             THEN "End time must be after start time"
             ELSE ""
    ELSE ""

\* ApplyUpdate that replaces the document: a path the update does not set
\* takes its default
ApplyUpdateOfDefaults(doc, update) ==
    [_id |-> doc._id,
     title |-> IF update.title.t # "undefined" THEN Trim(update.title.s) ELSE doc.title,
     description |-> IF update.description.t # "undefined"
                     THEN update.description.s ELSE <<>>,
     startTime |-> IF update.startTime.t # "undefined"
                   THEN update.startTime.n ELSE doc.startTime,
     endTime |-> IF update.endTime.t # "undefined"
                 THEN update.endTime.n ELSE doc.endTime,
     allDay |-> IF update.allDay.t # "undefined" THEN update.allDay.n = 1 ELSE FALSE,
     color |-> IF update.color.t # "undefined" THEN update.color.s ELSE DefaultColor,
     location |-> IF update.location.t # "undefined"
                  THEN update.location.s ELSE <<>>,
     recurring |-> IF update.recurring.t # "undefined"
                   THEN update.recurring.s ELSE DefaultRecurring,
     createdAt |-> doc.createdAt,
     updatedAt |-> IF update.updatedAt.t # "undefined"
                   THEN update.updatedAt.n ELSE doc.updatedAt]

\* the document doc after $set of the paths the update sets
ApplyUpdate(doc, update) ==
    [_id |-> doc._id,
     title |-> IF update.title.t # "undefined" THEN Trim(update.title.s) ELSE doc.title,
     description |-> IF update.description.t # "undefined"
                     THEN update.description.s ELSE doc.description,
     startTime |-> IF update.startTime.t # "undefined"
                   THEN update.startTime.n ELSE doc.startTime,
     endTime |-> IF update.endTime.t # "undefined"
                 THEN update.endTime.n ELSE doc.endTime,
     allDay |-> IF update.allDay.t # "undefined" THEN update.allDay.n = 1 ELSE doc.allDay,
     color |-> IF update.color.t # "undefined" THEN update.color.s ELSE doc.color,
     location |-> IF update.location.t # "undefined"
                  THEN update.location.s ELSE doc.location,
     recurring |-> IF update.recurring.t # "undefined"
                   THEN update.recurring.s ELSE doc.recurring,
     createdAt |-> doc.createdAt,
     updatedAt |-> IF update.updatedAt.t # "undefined"
                   THEN update.updatedAt.n ELSE doc.updatedAt]

\* Event.findByIdAndUpdate(id, update, {new: true, runValidators: true}):
\* the error thrown ("" if none) and the answer of lines 229-238
UpdateError(update) ==
    IF PreFindOneAndUpdate(update) # ""
    THEN "Error"
    ELSE IF InvalidPaths(update) # {} \/ ~EndTimeValidator(Undef, update.endTime)
    THEN "ValidationError"
    ELSE ""

PutResponse(id, update) ==
    IF UpdateError(update) = "Error"
    THEN Response(500, PreFindOneAndUpdate(update), <<>>)
    ELSE IF UpdateError(update) = "ValidationError"
    THEN Response(400, "Validation failed", <<>>)
    ELSE IF id \in DOMAIN events
    THEN Response(200, "", <<ApplyUpdate(events[id], update)>>)
    ELSE Response(200, "", <<>>)

\* lines 167-175: the id check, and findById answered by the store
PutFind(p, id, body) ==
    /\ Ready(p)
    /\ IF ~ObjectIdIsValid(id)
       THEN /\ last' = [last EXCEPT ![p] =
                    Answered("PUT", id, body, EmptyQuery,
                             Response(400, "Invalid event ID format", <<>>))]
            /\ UNCHANGED puts
       ELSE /\ puts' = [puts EXCEPT ![p] =
                    [IdlePut EXCEPT !.pc = "found", !.id = id, !.body = body,
                                    !.existing = FindById(id)]]
            /\ UNCHANGED last
    /\ UNCHANGED <<events, nextId, now, client>>

\* lines 176-223: from the answer of findById to the call of
\* findByIdAndUpdate
PutPrepare(p) ==
    LET put == puts[p]
        res == IF put.existing = <<>>
               THEN Response(404, "Event not found", <<>>)
               ELSE PutValidation(put.body, put.existing[1])
    IN  /\ put.pc = "found"
        /\ IF res.status # 0
           THEN /\ last' = [last EXCEPT ![p] =
                        Answered("PUT", put.id, put.body, EmptyQuery, res)]
                /\ puts' = [puts EXCEPT ![p] = IdlePut]
           ELSE /\ puts' = [puts EXCEPT ![p].pc = "update",
                                        ![p].updateData =
                                            UpdateData(put.body, put.existing[1], now)]
                /\ UNCHANGED last
        /\ UNCHANGED <<events, nextId, now, client>>

\* PutUpdate that reports a conflict when the record is no longer the one
\* findById returned
PutUpdateOfVersion(p) ==
    LET put == puts[p]
        res == IF put.existing # FindById(put.id)
               THEN Response(409, "Conflict", <<>>)
               ELSE PutResponse(put.id, put.updateData)
    IN  /\ put.pc = "update"
        /\ events' = IF res.status = 200 /\ res.data # <<>>
                     THEN [events EXCEPT ![put.id] = res.data[1]]
                     ELSE events
        /\ last' = [last EXCEPT ![p] = Answered("PUT", put.id, put.body, EmptyQuery, res)]
        /\ puts' = [puts EXCEPT ![p] = IdlePut]
        /\ UNCHANGED <<nextId, now, client>>

\* PutUpdate that writes the update before it is validated
PutUpdateOfWriteFirst(p) ==
    LET put == puts[p]
        res == PutResponse(put.id, put.updateData)
    IN  /\ put.pc = "update"
        /\ events' = IF put.id \in DOMAIN events
                     THEN [events EXCEPT ![put.id] = ApplyUpdate(events[put.id], put.updateData)]
                     ELSE events
        /\ last' = [last EXCEPT ![p] = Answered("PUT", put.id, put.body, EmptyQuery, res)]
        /\ puts' = [puts EXCEPT ![p] = IdlePut]
        /\ UNCHANGED <<nextId, now, client>>

\* lines 223-238: findByIdAndUpdate answered by the store, and the response
PutUpdate(p) ==
    LET put == puts[p]
        res == PutResponse(put.id, put.updateData)
    IN  /\ put.pc = "update"
        /\ events' = IF res.status = 200 /\ res.data # <<>>
                     THEN [events EXCEPT ![put.id] = res.data[1]]
                     ELSE events
        /\ last' = [last EXCEPT ![p] = Answered("PUT", put.id, put.body, EmptyQuery, res)]
        /\ puts' = [puts EXCEPT ![p] = IdlePut]
        /\ UNCHANGED <<nextId, now, client>>

----------------------------------------------------------------------------
(* DELETE /api/events/:id *)

\* DeleteResponse that answers the DELETE of a missing record like a
\* deletion
DeleteResponseOfMissing(id) ==
    IF ~ObjectIdIsValid(id)
    THEN Response(400, "Invalid event ID format", <<>>)
    ELSE Response(200, "", FindById(id))

\* lines 248-259: the response of router.delete('/:id')
DeleteResponse(id) ==
    IF ~ObjectIdIsValid(id)
    THEN Response(400, "Invalid event ID format", <<>>)
    ELSE IF FindById(id) = <<>>
    THEN Response(404, "Event not found", <<>>)
    ELSE Response(200, "", FindById(id))

\* DeleteEvent that finds the record with findById and leaves it stored
DeleteEventOfFind(p, id) ==
    /\ Ready(p)
    /\ last' = [last EXCEPT ![p] =
            Answered("DELETE", id, EmptyBody, EmptyQuery, DeleteResponse(id))]
    /\ UNCHANGED <<events, nextId, now, puts, client>>

\* router.delete('/:id') run by handler instance p
DeleteEvent(p, id) ==
    LET res == DeleteResponse(id)
    IN  /\ Ready(p)
        /\ events' = IF res.status = 200
                     THEN [i \in DOMAIN events \ {id} |-> events[i]]
                     ELSE events
        /\ last' = [last EXCEPT ![p] = Answered("DELETE", id, EmptyBody, EmptyQuery, res)]
        /\ UNCHANGED <<nextId, now, puts, client>>

----------------------------------------------------------------------------
(* GET /api/events/:id *)

\* lines 68-79: the response of router.get('/:id')
GetResponse(id) ==
    IF ~ObjectIdIsValid(id)
    THEN Response(400, "Invalid event ID format", <<>>)
    ELSE IF FindById(id) = <<>>
    THEN Response(404, "Event not found", <<>>)
    ELSE Response(200, "", FindById(id))

\* router.get('/:id') run by handler instance p
GetEvent(p, id) ==
    /\ Ready(p)
    /\ last' = [last EXCEPT ![p] =
            Answered("GET", id, EmptyBody, EmptyQuery, GetResponse(id))]
    /\ UNCHANGED <<events, nextId, now, puts, client>>

----------------------------------------------------------------------------
(* GET /api/events *)

\* OverlapsRange without the clause of an event that contains the range
OverlapsRangeOfEnds(doc, start, end) ==
    \/ doc.startTime >= start /\ doc.startTime <= end
    \/ doc.endTime >= start /\ doc.endTime <= end

\* lines 34-48: the $or filter of the range [start, end]
OverlapsRange(doc, start, end) ==
    \/ doc.startTime >= start /\ doc.startTime <= end
    \/ doc.endTime >= start /\ doc.endTime <= end
    \/ doc.startTime <= start /\ doc.endTime >= end

\* HasRange that takes one bound for a range: startDate || endDate
HasRangeOfEither(query) == ~Falsy(query.startDate) \/ ~Falsy(query.endDate)

\* whether the handler builds the filter: startDate && endDate
HasRange(query) == ~Falsy(query.startDate) /\ ~Falsy(query.endDate)

\* the documents Event.find(query) selects
Found(query) ==
    IF HasRange(query)
    THEN {events[i] : i \in {j \in DOMAIN events :
              OverlapsRange(events[j], NewDate(query.startDate), NewDate(query.endDate))}}
    ELSE {events[i] : i \in DOMAIN events}

\* SortedByStartTime without the sort: the documents in the order of their
\* insertion
SortedByInsertion(docs) ==
    {seq \in [1..Cardinality(docs) -> docs] :
        \A i, j \in 1..Cardinality(docs) : i < j => seq[i]._id < seq[j]._id}

\* .sort({ startTime: 1 }): the orders of docs by ascending startTime; the
\* store does not say in which order it returns equal startTimes
SortedByStartTime(docs) ==
    {seq \in [1..Cardinality(docs) -> docs] :
        /\ \A i, j \in 1..Cardinality(docs) : i # j => seq[i] # seq[j]
        /\ \A i, j \in 1..Cardinality(docs) : i < j => seq[i].startTime <= seq[j].startTime}

\* RangeValidation that refuses an endDate equal to startDate
RangeValidationStrict(query) ==
    IF ~HasRange(query)
    THEN Response(0, "", <<>>)
    ELSE IF IsNaN(NewDate(query.startDate)) \/ IsNaN(NewDate(query.endDate))
    THEN Response(400, "Invalid date format. Use ISO 8601 format.", <<>>)
    ELSE IF DateLE(NewDate(query.endDate), NewDate(query.startDate))
    THEN Response(400, "endDate must be after startDate", <<>>)
    ELSE Response(0, "", <<>>)

\* lines 16-27: the response that ends the request before the find, or a
\* response of status 0
RangeValidation(query) ==
    IF ~HasRange(query)
    THEN Response(0, "", <<>>)
    ELSE IF IsNaN(NewDate(query.startDate)) \/ IsNaN(NewDate(query.endDate))
    THEN Response(400, "Invalid date format. Use ISO 8601 format.", <<>>)
    ELSE IF DateLT(NewDate(query.endDate), NewDate(query.startDate))
    THEN Response(400, "endDate must be after startDate", <<>>)
    ELSE Response(0, "", <<>>)

\* router.get('/') run by handler instance p
GetEvents(p, query) ==
    /\ Ready(p)
    /\ IF RangeValidation(query).status # 0
       THEN last' = [last EXCEPT ![p] =
                Answered("LIST", MalformedId, EmptyBody, query, RangeValidation(query))]
       ELSE \E data \in SortedByStartTime(Found(query)) :
                last' = [last EXCEPT ![p] =
                    Answered("LIST", MalformedId, EmptyBody, query,
                             Response(200, "", data))]
    /\ UNCHANGED <<events, nextId, now, puts, client>>

----------------------------------------------------------------------------
(* The store fails *)

\* an error a call of the store throws: its name and its message
StoreError(name, message) == [name |-> name, message |-> message]

\* error.message || fallback
MessageOr(error, fallback) == IF error.message = "" THEN fallback ELSE error.message

\* the catch blocks of router.get('/'), router.get('/:id') and
\* router.delete('/:id')
Caught(error, fallback) == Response(500, MessageOr(error, fallback), <<>>)

\* the catch blocks of router.post('/') and router.put('/:id')
CaughtOfWrite(error, fallback) ==
    IF error.name = "ValidationError"
    THEN Response(400, error.message, <<>>)
    ELSE IF error.name = "CastError"
    THEN Response(400, "Invalid data format", <<>>)
    ELSE Response(500, MessageOr(error, fallback), <<>>)

\* router.get('/') when Event.find throws
GetEventsFails(p, query, error) ==
    /\ Ready(p)
    /\ RangeValidation(query).status = 0
    /\ last' = [last EXCEPT ![p] =
            Answered("LIST", MalformedId, EmptyBody, query,
                     Caught(error, "Failed to fetch events"))]
    /\ UNCHANGED <<events, nextId, now, puts, client>>

\* router.get('/:id') when Event.findById throws
GetEventFails(p, id, error) ==
    /\ Ready(p)
    /\ ObjectIdIsValid(id)
    /\ last' = [last EXCEPT ![p] =
            Answered("GET", id, EmptyBody, EmptyQuery,
                     Caught(error, "Failed to fetch event"))]
    /\ UNCHANGED <<events, nextId, now, puts, client>>

\* router.post('/') when the insert of event.save() throws
PostEventFails(p, body, error) ==
    /\ Ready(p)
    /\ PostResponse(body, nextId, now).status = 201
    /\ last' = [last EXCEPT ![p] =
            Answered("POST", MalformedId, body, EmptyQuery,
                     CaughtOfWrite(error, "Failed to create event"))]
    /\ UNCHANGED <<events, nextId, now, puts, client>>

\* router.put('/:id') when Event.findById throws
PutFindFails(p, id, body, error) ==
    /\ Ready(p)
    /\ ObjectIdIsValid(id)
    /\ last' = [last EXCEPT ![p] =
            Answered("PUT", id, body, EmptyQuery,
                     CaughtOfWrite(error, "Failed to update event"))]
    /\ UNCHANGED <<events, nextId, now, puts, client>>

\* router.put('/:id') when the write of Event.findByIdAndUpdate throws
PutUpdateFails(p, error) ==
    LET put == puts[p]
    IN  /\ put.pc = "update"
        /\ UpdateError(put.updateData) = ""
        /\ last' = [last EXCEPT ![p] =
                Answered("PUT", put.id, put.body, EmptyQuery,
                         CaughtOfWrite(error, "Failed to update event"))]
        /\ puts' = [puts EXCEPT ![p] = IdlePut]
        /\ UNCHANGED <<events, nextId, now, client>>

\* router.delete('/:id') when Event.findByIdAndDelete throws
DeleteEventFails(p, id, error) ==
    /\ Ready(p)
    /\ ObjectIdIsValid(id)
    /\ last' = [last EXCEPT ![p] =
            Answered("DELETE", id, EmptyBody, EmptyQuery,
                     Caught(error, "Failed to delete event"))]
    /\ UNCHANGED <<events, nextId, now, puts, client>>

----------------------------------------------------------------------------
(* The client receives the response *)

Deliver(p) ==
    /\ last[p] # NoRequest
    /\ last' = [last EXCEPT ![p] = NoRequest]
    /\ UNCHANGED <<events, nextId, now, puts, client>>

----------------------------------------------------------------------------
(* The clock *)

Tick ==
    /\ now < MaxClock
    /\ now' = now + 1
    /\ UNCHANGED <<events, nextId, puts, last, client>>

----------------------------------------------------------------------------
(* Dates of the client: utils/dateUtils.js over date-fns, in a time zone     *)
(* without daylight saving.  A date is its instant in ticks since            *)
(* 1970-01-01 00:00, a Thursday.                                             *)

MinuteLength == TicksPerMinute
HourLength == 60 * MinuteLength
DayLength == 24 * HourLength

\* the day of an instant, counted from 1970-01-01
DayNumber(t) == t \div DayLength

\* getDay: 0 is Sunday
getDay(t) == (DayNumber(t) + 4) % 7

\* the days of the months of 1970
MonthLengths == <<31, 28, 31, 30, 31, 30, 31, 31, 30, 31, 30, 31>>

RECURSIVE FirstDayOfMonth(_)
\* the day number of the first day of month m of 1970
FirstDayOfMonth(m) == IF m = 1 THEN 0 ELSE FirstDayOfMonth(m - 1) + MonthLengths[m - 1]

\* getMonth + 1 of an instant of 1970
MonthOf(t) ==
    CHOOSE m \in 1..12 :
        /\ FirstDayOfMonth(m) <= DayNumber(t)
        /\ DayNumber(t) < FirstDayOfMonth(m) + MonthLengths[m]

getDayStart(date) == DayNumber(date) * DayLength
getDayEnd(date) == getDayStart(date) + DayLength - 1
getWeekStart(date) == getDayStart(date) - getDay(date) * DayLength
getWeekEnd(date) == getWeekStart(date) + 7 * DayLength - 1
getMonthStart(date) == FirstDayOfMonth(MonthOf(date)) * DayLength
getMonthEnd(date) == getMonthStart(date) + MonthLengths[MonthOf(date)] * DayLength - 1

\* getHours and getMinutes
getHours(date) == (date % DayLength) \div HourLength
getMinutes(date) == (date % HourLength) \div MinuteLength

\* setMinutes(setHours(date, hour), 0); hour 24 is the next day's 00:00
setHourMinute(date, hour, minute) ==
    getDayStart(date) + hour * HourLength + minute * MinuteLength + (date % MinuteLength)

----------------------------------------------------------------------------
(* The App component: client/src/App.js over services/api.js.  A call of     *)
(* the App uses connection p, and handler instance p of the server answers  *)
(* it.                                                                       *)

\* { message, type } of showNotification
Notice(message, type) == [message |-> message, type |-> type]

\* the state of the App before it is mounted (lines 34-41); null is <<>>.
\* fetched is no state of the code: it is the query whose response
\* setEvents stored last
Unmounted(date) ==
    [mounted |-> FALSE, currentDate |-> date, view |-> "month", events |-> <<>>,
     selectedEvent |-> <<>>, isModalOpen |-> FALSE, loading |-> FALSE,
     notification |-> <<>>, fetched |-> EmptyQuery]

\* a call that waits for its response: the handler that made it (kind), the
\* request it waits for (wait), and what the handler read when it started
Call(kind, wait, query, id, body) ==
    [kind |-> kind, wait |-> wait, query |-> query, id |-> id, body |-> body]

NoCall == Call("none", "none", EmptyQuery, MalformedId, EmptyBody)

\* lines 63-81: the range of a view and a date, as the params of getEvents
\* (services/api.js, toISOString)
RangeQuery(view, date) ==
    CASE view = "week" -> Query(Iso(getWeekStart(date)), Iso(getWeekEnd(date)))
      [] view = "day" -> Query(Iso(getDayStart(date)), Iso(getDayEnd(date)))
      [] OTHER -> Query(Iso(getMonthStart(date)), Iso(getMonthEnd(date)))

\* connection p is free for a call
Free(p) == calls[p] = NoCall /\ Ready(p)

\* fetchEvents up to its await (lines 61-83), on connection p, in the render
\* of the state a
FetchEvents(p, a) ==
    /\ Free(p)
    /\ app' = [a EXCEPT !.loading = TRUE]
    /\ calls' = [calls EXCEPT ![p] =
            Call("fetchEvents", "LIST", RangeQuery(a.view, a.currentDate),
                 MalformedId, EmptyBody)]

\* the first render: useEffect runs fetchEvents (lines 94-96)
Mount(p) ==
    /\ ~app.mounted
    /\ FetchEvents(p, [app EXCEPT !.mounted = TRUE])
    /\ UNCHANGED <<events, nextId, now, puts, last, calc, form>>

\* onViewChange = setView: a new view renders again and the effect runs
\* fetchEvents
SetView(p, view) ==
    /\ app.mounted
    /\ view # app.view
    /\ FetchEvents(p, [app EXCEPT !.view = view])
    /\ UNCHANGED <<events, nextId, now, puts, last, calc, form>>

\* setCurrentDate with a new Date object (navigateDate, goToToday,
\* handleSidebarDateClick, onDateChange): the effect runs fetchEvents
SetCurrentDate(p, date) ==
    /\ app.mounted
    /\ FetchEvents(p, [app EXCEPT !.currentDate = date])
    /\ UNCHANGED <<events, nextId, now, puts, last, calc, form>>

\* getDate: the day of the month of a date of 1970
getDate(date) == DayNumber(date) - FirstDayOfMonth(MonthOf(date)) + 1

\* Date.prototype.setMonth on a copy of date, with the months counted from
\* 1: the day of the month and the time stay, and a day the month does not
\* have runs over into the month after it
setMonth(date, month) ==
    (FirstDayOfMonth(month) + getDate(date) - 1) * DayLength + (date % DayLength)

\* Date.prototype.setDate(getDate() + days) on a copy of date
addDays(date, days) == date + days * DayLength

\* the date navigateDate sets (lines 187-213)
Navigated(view, prev, direction) ==
    CASE view = "month" ->
            setMonth(prev, MonthOf(prev) + (IF direction = "next" THEN 1 ELSE -1))
      [] view = "week" -> addDays(prev, IF direction = "next" THEN 7 ELSE -7)
      [] view = "day" -> addDays(prev, IF direction = "next" THEN 1 ELSE -1)
      [] OTHER -> prev

\* navigateDate, and the fetch of the effect, on connection p
navigateDate(p, direction) ==
    SetCurrentDate(p, Navigated(app.view, app.currentDate, direction))

\* handleDateClick (lines 152-166): the modal opens on a draft of one hour
handleDateClick(date) ==
    /\ app.mounted
    /\ app' = [app EXCEPT !.selectedEvent =
                    <<[startTime |-> date, endTime |-> date + HourLength, allDay |-> FALSE]>>,
                          !.isModalOpen = TRUE]
    /\ UNCHANGED <<events, nextId, now, puts, last, calls, calc, form>>

\* handleEventClick (lines 171-174): the modal opens on the k-th event shown
handleEventClick(k) ==
    /\ app.mounted
    /\ k \in 1..Len(app.events)
    /\ app' = [app EXCEPT !.selectedEvent = <<app.events[k]>>, !.isModalOpen = TRUE]
    /\ UNCHANGED <<events, nextId, now, puts, last, calls, calc, form>>

\* onCreateEvent (lines 241-244, 256-259): the modal opens on no event
onCreateEvent ==
    /\ app.mounted
    /\ app' = [app EXCEPT !.selectedEvent = <<>>, !.isModalOpen = TRUE]
    /\ UNCHANGED <<events, nextId, now, puts, last, calls, calc, form>>

\* handleCloseModal that closes the modal and keeps the selected event
handleCloseModalOfKeep ==
    /\ app.isModalOpen
    /\ app' = [app EXCEPT !.isModalOpen = FALSE]
    /\ UNCHANGED <<events, nextId, now, puts, last, calls, calc, form>>

\* handleCloseModal (lines 179-182)
handleCloseModal ==
    /\ app.isModalOpen
    /\ app' = [app EXCEPT !.isModalOpen = FALSE, !.selectedEvent = <<>>]
    /\ UNCHANGED <<events, nextId, now, puts, last, calls, calc, form>>

\* hideNotification (lines 53-55), by its button or its timer
hideNotification ==
    /\ app.notification # <<>>
    /\ app' = [app EXCEPT !.notification = <<>>]
    /\ UNCHANGED <<events, nextId, now, puts, last, calls, calc, form>>

\* selectedEvent?.id || selectedEvent?._id (lines 299-306): the modal edits
\* a stored event
IsEditing(a) == a.selectedEvent # <<>> /\ "_id" \in DOMAIN a.selectedEvent[1]

\* onSave of the modal: handleUpdateEvent or handleCreateEvent up to the
\* await of its request (lines 101-103, 118-120), on connection p
onSave(p, data) ==
    /\ app.isModalOpen
    /\ Free(p)
    /\ calls' = [calls EXCEPT ![p] =
            IF IsEditing(app)
            THEN Call("handleUpdateEvent", "PUT", RangeQuery(app.view, app.currentDate),
                      app.selectedEvent[1]._id, data)
            ELSE Call("handleCreateEvent", "POST", RangeQuery(app.view, app.currentDate),
                      MalformedId, data)]
    /\ UNCHANGED <<events, nextId, now, puts, last, app, calc, form>>

\* onDelete of the modal: handleDeleteEvent up to the await of its request
\* (lines 135-137), on connection p
onDelete(p) ==
    /\ app.isModalOpen
    /\ IsEditing(app)
    /\ Free(p)
    /\ calls' = [calls EXCEPT ![p] =
            Call("handleDeleteEvent", "DELETE", RangeQuery(app.view, app.currentDate),
                 app.selectedEvent[1]._id, EmptyBody)]
    /\ UNCHANGED <<events, nextId, now, puts, last, app, calc, form>>

\* the text of a handler's success and failure notifications
Succeeded(kind) ==
    CASE kind = "handleCreateEvent" -> "Event created successfully!"
      [] kind = "handleUpdateEvent" -> "Event updated successfully!"
      [] kind = "handleDeleteEvent" -> "Event deleted successfully!"

Failed(kind) ==
    CASE kind = "handleCreateEvent" -> "Failed to create event. Please try again."
      [] kind = "handleUpdateEvent" -> "Failed to update event. Please try again."
      [] kind = "handleDeleteEvent" -> "Failed to delete event. Please try again."

\* Fetched that ignores the response of a fetch for another range than the
\* one of the view and the date of a
FetchedIfCurrent(a, ok, data, query) ==
    IF query # RangeQuery(a.view, a.currentDate)
    THEN [a EXCEPT !.loading = FALSE]
    ELSE IF ok
    THEN [a EXCEPT !.events = data, !.loading = FALSE, !.fetched = query]
    ELSE [a EXCEPT !.notification =
                       <<Notice("Failed to load events. Please try again.", "error")>>,
                   !.loading = FALSE]

\* the rest of fetchEvents after its await (lines 84-90) in the state a:
\* ok is whether the request succeeded, data its response
Fetched(a, ok, data, query) ==
    IF ok
    THEN [a EXCEPT !.events = data, !.loading = FALSE, !.fetched = query]
    ELSE [a EXCEPT !.notification =
                       <<Notice("Failed to load events. Please try again.", "error")>>,
                   !.loading = FALSE]

\* the call of connection p goes on after its await: its request succeeded
\* with data, or failed with an Error of message
Settle(p, ok, data, message) ==
    LET c == calls[p]
    IN  IF c.kind = "fetchEvents"
        THEN /\ app' = Fetched(app, ok, data, c.query)
             /\ calls' = [calls EXCEPT ![p] = NoCall]
        ELSE IF c.wait = "LIST"
        THEN \* lines 104-107: after await fetchEvents()
             /\ app' = [Fetched(app, ok, data, c.query) EXCEPT
                            !.isModalOpen = FALSE, !.selectedEvent = <<>>,
                            !.notification = <<Notice(Succeeded(c.kind), "success")>>]
             /\ calls' = [calls EXCEPT ![p] = NoCall]
        ELSE IF ok
        THEN \* line 104: fetchEvents of the render the handler is of
             /\ app' = [app EXCEPT !.loading = TRUE]
             /\ calls' = [calls EXCEPT ![p].wait = "LIST"]
        ELSE \* lines 108-111: the catch block
             /\ app' = [app EXCEPT !.notification =
                            <<Notice(IF message # "" THEN message ELSE Failed(c.kind),
                                     "error")>>]
             /\ calls' = [calls EXCEPT ![p] = NoCall]

\* api.interceptors.response.use: the message of the Error of a response
\* with an error status
Rejected(res) == IF res.error # "" THEN res.error ELSE "An error occurred"

\* the response of the server reaches the client on connection p
Receive(p) ==
    /\ calls[p] # NoCall
    /\ last[p] # NoRequest
    /\ Settle(p, last[p].status \in 200..299, last[p].data, Rejected(last[p]))
    /\ last' = [last EXCEPT ![p] = NoRequest]
    /\ UNCHANGED <<events, nextId, now, puts, calc, form>>

\* no response reaches the client in time (timeout: 10000): the request or
\* its response is lost
Timeout(p) ==
    /\ calls[p] # NoCall
    /\ puts[p].pc = "idle"
    /\ Settle(p, FALSE, <<>>, "Network error. Please check your connection.")
    /\ last' = [last EXCEPT ![p] = NoRequest]
    /\ UNCHANGED <<events, nextId, now, puts, calc, form>>

\* handler instance p of the server answers the request of connection p
Serve(p) ==
    LET c == calls[p]
    IN  \/ c.wait = "LIST" /\ GetEvents(p, c.query)
        \/ c.wait = "POST" /\ PostEvent(p, c.body)
        \/ c.wait = "PUT" /\ PutFind(p, c.id, c.body)
        \/ PutPrepare(p)
        \/ PutUpdate(p)
        \/ c.wait = "DELETE" /\ DeleteEvent(p, c.id)

----------------------------------------------------------------------------
(* The requests the clients send *)

Times == 0..MaxTime

\* the ids of requests: every id the store can assign, and a malformed one
RequestIds == {MalformedId} \cup (1..MaxEvents)

\* values of startTime and endTime in a body
TimeValues == {Undef, Null, Str(<<"x">>)} \cup {Iso(k) : k \in Times}

\* values of startDate and endDate in a query string
DateParams == {Undef, Str(<<>>), Str(<<"x">>)} \cup {Iso(k) : k \in Times}

TitleA == Str(<<"a">>)

\* bodies that vary the two times, with a title and nothing else
TimeBodies ==
    {Body(TitleA, Undef, s, e, Undef, Undef, Undef, Undef) : s, e \in TimeValues}

\* PUT bodies that vary the two times and nothing else
TimeUpdates ==
    {Body(Undef, Undef, s, e, Undef, Undef, Undef, Undef) : s, e \in TimeValues}

Queries == {Query(s, e) : s, e \in DateParams}

----------------------------------------------------------------------------
(* The views: components/WeekView.js and components/DayView.js over          *)
(* utils/dateUtils.js.  An event of the views is the JSON of a document.     *)

\* parseISO of the ISO string of an instant
parseISO(v) == IF v.t = "isostring" THEN v.n ELSE InvalidDate

\* the fields of an event the views read
ViewEvent(start, end, allDay) ==
    [startTime |-> Iso(start), endTime |-> Iso(end), allDay |-> allDay]

\* Date.prototype.setHours(hours, min, 0, 0) on a copy of date
setHoursOfDay(date, hours, min) ==
    date - (date % DayLength) + hours * HourLength + min * MinuteLength

\* Date.prototype.setHours(23, 59, 59, 999) on a copy of date: the last
\* instant of the day
setHoursLast(date) ==
    setHoursOfDay(date, 23, 59) + (MinuteLength - 1)

\* setHours of date-fns; hour 24 is 00 of the next day
setHours(date, hour) ==
    getDayStart(date) + hour * HourLength + (date % HourLength)

\* setMinutes of date-fns
setMinutes(date, minute) ==
    date - getMinutes(date) * MinuteLength + minute * MinuteLength

\* getEventsForDay that drops the events that end at the day's first instant
getEventsForDayOfLater(evs, day) ==
    LET dayStart == getDayStart(day)
        dayEnd == getDayEnd(day)
        Keeps(event) ==
            LET eventStart == parseISO(event.startTime)
                eventEnd == parseISO(event.endTime)
            IN  \/ eventStart >= dayStart /\ eventStart <= dayEnd
                \/ eventEnd > dayStart /\ eventEnd <= dayEnd
                \/ eventStart <= dayStart /\ eventEnd >= dayEnd
    IN  SelectSeq(evs, Keeps)

\* getEventsForDay that keeps the events that start or end on the day
getEventsForDayOfEnds(evs, day) ==
    LET dayStart == getDayStart(day)
        dayEnd == getDayEnd(day)
        Keeps(event) ==
            LET eventStart == parseISO(event.startTime)
                eventEnd == parseISO(event.endTime)
            IN  \/ eventStart >= dayStart /\ eventStart <= dayEnd
                \/ eventEnd >= dayStart /\ eventEnd <= dayEnd
    IN  SelectSeq(evs, Keeps)

\* getEventsForDay (utils/dateUtils.js)
getEventsForDay(evs, day) ==
    LET dayStart == getDayStart(day)
        dayEnd == getDayEnd(day)
        Keeps(event) ==
            LET eventStart == parseISO(event.startTime)
                eventEnd == parseISO(event.endTime)
            IN  \/ eventStart >= dayStart /\ eventStart <= dayEnd
                \/ eventEnd >= dayStart /\ eventEnd <= dayEnd
                \/ eventStart <= dayStart /\ eventEnd >= dayEnd
    IN  SelectSeq(evs, Keeps)

\* dayEvents with a day that ends before its last instant
dayEventsOfHalfOpen(evs, currentDate) ==
    LET dayStart == setHoursOfDay(currentDate, 0, 0)
        dayEnd == setHoursLast(currentDate)
        Keeps(event) ==
            LET eventStart == parseISO(event.startTime)
                eventEnd == parseISO(event.endTime)
            IN  \/ eventStart >= dayStart /\ eventStart < dayEnd
                \/ eventEnd >= dayStart /\ eventEnd < dayEnd
                \/ eventStart <= dayStart /\ eventEnd >= dayEnd
    IN  SelectSeq(evs, Keeps)

\* dayEvents of DayView
dayEvents(evs, currentDate) ==
    LET dayStart == setHoursOfDay(currentDate, 0, 0)
        dayEnd == setHoursLast(currentDate)
        Keeps(event) ==
            LET eventStart == parseISO(event.startTime)
                eventEnd == parseISO(event.endTime)
            IN  \/ eventStart >= dayStart /\ eventStart <= dayEnd
                \/ eventEnd >= dayStart /\ eventEnd <= dayEnd
                \/ eventStart <= dayStart /\ eventEnd >= dayEnd
    IN  SelectSeq(evs, Keeps)

\* getEventsForTimeSlot with a slot that includes its end
getEventsForTimeSlotOfClosed(evs, date, hour) ==
    LET slotStart == setMinutes(setHours(date, hour), 0)
        slotEnd == setMinutes(setHours(date, hour + 1), 0)
        Keeps(event) ==
            LET eventStart == parseISO(event.startTime)
                eventEnd == parseISO(event.endTime)
            IN  \/ eventStart >= slotStart /\ eventStart <= slotEnd
                \/ eventEnd >= slotStart /\ eventEnd <= slotEnd
                \/ eventStart <= slotStart /\ eventEnd >= slotEnd
    IN  SelectSeq(evs, Keeps)

\* getEventsForTimeSlot (utils/dateUtils.js)
getEventsForTimeSlot(evs, date, hour) ==
    LET slotStart == setMinutes(setHours(date, hour), 0)
        slotEnd == setMinutes(setHours(date, hour + 1), 0)
        Keeps(event) ==
            LET eventStart == parseISO(event.startTime)
                eventEnd == parseISO(event.endTime)
            IN  \/ eventStart >= slotStart /\ eventStart < slotEnd
                \/ eventEnd > slotStart /\ eventEnd <= slotEnd
                \/ eventStart <= slotStart /\ eventEnd >= slotEnd
    IN  SelectSeq(evs, Keeps)

\* Math.max
Max(a, b) == IF a >= b THEN a ELSE b

\* { top, height } in pixels; auto is height: 'auto'
Position(top, height, auto) == [top |-> top, height |-> height, auto |-> auto]

\* the least height of an event, in pixels
minHeightPx == 20

\* getEventPosition of WeekView
WeekEventPosition(event, day) ==
    LET eventStart == parseISO(event.startTime)
        eventEnd == parseISO(event.endTime)
        dayStart == setHoursOfDay(day, 0, 0)
        dayEnd == setHoursLast(day)
        effectiveStart == IF eventStart < dayStart THEN dayStart ELSE eventStart
        effectiveEnd == IF eventEnd > dayEnd THEN dayEnd ELSE eventEnd
        startHour == getHours(effectiveStart)
        startMinute == getMinutes(effectiveStart)
        endHour == getHours(effectiveEnd)
        endMinute == getMinutes(effectiveEnd)
        startPositionPx == (startHour * 60) + startMinute
        durationPx == (endHour * 60 + endMinute) - (startHour * 60 + startMinute)
    IN  IF event.allDay
        THEN Position(0, 0, TRUE)
        ELSE Position(startPositionPx, Max(durationPx, minHeightPx), FALSE)

\* getEventPosition of DayView
DayEventPosition(event) ==
    LET eventStart == parseISO(event.startTime)
        eventEnd == parseISO(event.endTime)
        startHour == getHours(eventStart)
        startMinute == getMinutes(eventStart)
        endHour == getHours(eventEnd)
        endMinute == getMinutes(eventEnd)
        startPositionPx == (startHour * 60) + startMinute
        durationPx == (endHour * 60 + endMinute) - (startHour * 60 + startMinute)
    IN  IF event.allDay
        THEN Position(0, 0, TRUE)
        ELSE Position(startPositionPx, Max(durationPx, minHeightPx), FALSE)

\* the events of a list that are not all-day, in order
Timed(evs) == SelectSeq(evs, LAMBDA event : ~event.allDay)

\* what a view has rendered for a day: the events it shows on the day and
\* the position of each one that is not all-day
Rendered(view, evs, day, shown, positions) ==
    [fn |-> view, events |-> evs, day |-> day, shown |-> shown,
     positions |-> positions]

\* WeekView renders the column of a day of the week
RenderWeekDay(evs, day) ==
    /\ calc' = <<Rendered("WeekView", evs, day, getEventsForDay(evs, day),
                    [k \in DOMAIN Timed(getEventsForDay(evs, day)) |->
                        WeekEventPosition(Timed(getEventsForDay(evs, day))[k], day)])>>
    /\ UNCHANGED <<events, nextId, now, puts, last, app, calls, form>>

\* DayView renders the day of currentDate
RenderDayView(evs, currentDate) ==
    /\ calc' = <<Rendered("DayView", evs, currentDate, dayEvents(evs, currentDate),
                    [k \in DOMAIN Timed(dayEvents(evs, currentDate)) |->
                        DayEventPosition(Timed(dayEvents(evs, currentDate))[k])])>>
    /\ UNCHANGED <<events, nextId, now, puts, last, app, calls, form>>

\* the document of an event, as the filter of the server reads it
DocOf(event) ==
    [startTime |-> parseISO(event.startTime), endTime |-> parseISO(event.endTime)]

\* the events whose documents the filter of GET /api/events selects for the
\* range [start, end]
RangeEvents(evs, start, end) ==
    /\ calc' = <<[fn |-> "find", events |-> evs, day |-> start, last |-> end,
                  shown |-> SelectSeq(evs, LAMBDA event :
                                OverlapsRange(DocOf(event), start, end))]>>
    /\ UNCHANGED <<events, nextId, now, puts, last, app, calls, form>>

\* the events of a day and the events of each of its 24 slots
DaySlots(evs, day) ==
    /\ calc' = <<[fn |-> "slots", events |-> evs, day |-> day,
                  shown |-> getEventsForDay(evs, day),
                  slots |-> [hour \in 0..23 |-> getEventsForTimeSlot(evs, day, hour)]]>>
    /\ UNCHANGED <<events, nextId, now, puts, last, app, calls, form>>

\* the events of the slot of an hour of a date
SlotEvents(evs, date, hour) ==
    /\ calc' = <<[fn |-> "getEventsForTimeSlot", events |-> evs, day |-> date,
                  hour |-> hour, shown |-> getEventsForTimeSlot(evs, date, hour)]>>
    /\ UNCHANGED <<events, nextId, now, puts, last, app, calls, form>>

----------------------------------------------------------------------------
(* The month view: components/MonthView.js *)

\* getDaysInMonthView: the days from the start of the week of the month's
\* first day to the end of the week of its last day, each at 00:00
getDaysInMonthView(date) ==
    LET calendarStart == getWeekStart(getMonthStart(date))
        calendarEnd == getWeekEnd(getMonthEnd(date))
    IN  [k \in 1..(DayNumber(calendarEnd) - DayNumber(calendarStart) + 1) |->
            calendarStart + (k - 1) * DayLength]

\* res.json of a document, as the views read it: the dates are ISO strings
ViewOf(doc) == ViewEvent(doc.startTime, doc.endTime, doc.allDay)

\* the events list of the App as the views read it
ViewEventsOf(docs) == [k \in DOMAIN docs |-> ViewOf(docs[k])]

\* array.slice(0, n)
SliceTo(seq, n) == SubSeq(seq, 1, IF Len(seq) < n THEN Len(seq) ELSE n)

\* MonthView: for each day of the grid, the events of its cell (lines 29-30,
\* 44): the first three of getEventsForDay
MonthCells(docs, currentDate) ==
    LET days == getDaysInMonthView(currentDate)
    IN  [k \in DOMAIN days |->
            [day |-> days[k],
             shown |-> SliceTo(getEventsForDay(ViewEventsOf(docs), days[k]), 3)]]

----------------------------------------------------------------------------
(* The EventModal component: client/src/components/EventModal.js.  The      *)
(* value of a datetime-local input is a day and a minute of the day, the     *)
(* value of a date input is a day.                                            *)

\* no EventModal is mounted
NoForm == <<>>

\* "yyyy-MM-dd'T'HH:mm": the value of a datetime-local input
LocalString(day, minute) == [t |-> "datetime-local", day |-> day, minute |-> minute]

\* "yyyy-MM-dd": the value of a date input
DateString(day) == [t |-> "date", day |-> day, minute |-> 0]

\* format(date, "yyyy-MM-dd'T'HH:mm"): the seconds are dropped
formatLocal(date) ==
    LocalString(DayNumber(date), 60 * getHours(date) + getMinutes(date))

\* value.includes('T')
includesT(value) == value.t = "datetime-local"

\* value.split('T')[0]
splitDate(value) == DateString(value.day)

\* value + 'T09:00'
appendTime(value, hours, min) == LocalString(value.day, 60 * hours + min)

\* new Date(value) in a time zone of offset zone from UTC: a date and a time
\* is local time, a date alone is 00:00 UTC
DateOfInput(value, zone) ==
    IF includesT(value)
    THEN value.day * DayLength + value.minute * MinuteLength
    ELSE value.day * DayLength + zone

\* getInitialFormData (lines 16-34) for the event prop; null is <<>>
getInitialFormData(event, today) ==
    [title |-> Str(<<>>),
     description |-> Str(<<>>),
     startTime |-> IF event # <<>> THEN formatLocal(parseISO(event[1].startTime))
                   ELSE formatLocal(today),
     endTime |-> IF event # <<>> THEN formatLocal(parseISO(event[1].endTime))
                 ELSE formatLocal(today + HourLength),
     allDay |-> event # <<>> /\ event[1].allDay,
     color |-> Str(<<"#">>),
     location |-> Str(<<>>),
     recurring |-> Str(<<"n">>)]

\* the modal: its formData, the time zone of the browser, and what the last
\* submit did: the data given to onSave, or the input it refused
Modal(formData, zone, saved, refused) ==
    [formData |-> formData, zone |-> zone, saved |-> saved, refused |-> refused]

\* the App renders the modal for the event prop, when new Date() is today
OpenModal(event, today, zone) ==
    /\ form = NoForm
    /\ form' = <<Modal(getInitialFormData(event, today), zone, <<>>, "")>>
    /\ UNCHANGED <<events, nextId, now, puts, last, app, calls, calc>>

\* handleChange of the allDay checkbox (lines 86-112)
Toggled(prev, checked) ==
    IF checked
    THEN [prev EXCEPT
            !.allDay = TRUE,
            !.startTime = IF includesT(prev.startTime)
                          THEN splitDate(prev.startTime) ELSE prev.startTime,
            !.endTime = IF includesT(prev.endTime)
                        THEN splitDate(prev.endTime) ELSE prev.endTime]
    ELSE [prev EXCEPT
            !.allDay = FALSE,
            !.startTime = IF ~includesT(prev.startTime)
                          THEN appendTime(prev.startTime, 9, 0) ELSE prev.startTime,
            !.endTime = IF ~includesT(prev.endTime)
                        THEN appendTime(prev.endTime, 10, 0) ELSE prev.endTime]

\* handleChange: the allDay checkbox is set to checked
handleChangeAllDay(checked) ==
    /\ form # NoForm
    /\ checked # form[1].formData.allDay
    /\ form' = <<[form[1] EXCEPT !.formData = Toggled(@, checked)]>>
    /\ UNCHANGED <<events, nextId, now, puts, last, app, calls, calc>>

\* handleChange of another input (lines 115-118): title, startTime, endTime
handleChange(name, value) ==
    /\ form # NoForm
    /\ form' = <<[form[1] EXCEPT !.formData[name] = value]>>
    /\ UNCHANGED <<events, nextId, now, puts, last, app, calls, calc>>

\* what handleSubmit gives to onSave (lines 154-172)
Submitted(formData, zone) ==
    IF formData.allDay
    THEN [formData EXCEPT
            !.startTime = Iso(setHoursOfDay(DateOfInput(formData.startTime, zone), 0, 0)),
            !.endTime = Iso(setHoursLast(DateOfInput(formData.endTime, zone)))]
    ELSE [formData EXCEPT
            !.startTime = Iso(DateOfInput(formData.startTime, zone)),
            !.endTime = Iso(DateOfInput(formData.endTime, zone))]

\* handleSubmit (lines 125-179)
handleSubmit ==
    /\ form # NoForm
    /\ LET m == form[1]
       IN  form' =
             IF Trim(m.formData.title.s) = <<>>
             THEN <<[m EXCEPT !.saved = <<>>, !.refused = "title"]>>
             ELSE IF DateOfInput(m.formData.endTime, m.zone)
                        <= DateOfInput(m.formData.startTime, m.zone)
             THEN <<[m EXCEPT !.saved = <<>>, !.refused = "endTime"]>>
             ELSE <<[m EXCEPT !.saved = <<Submitted(m.formData, m.zone)>>,
                              !.refused = ""]>>
    /\ UNCHANGED <<events, nextId, now, puts, last, app, calls, calc>>

----------------------------------------------------------------------------
(* Specifications *)

\* new Date() when the App is constructed: 1970-01-01 09:00
Today == 9 * HourLength

\* the dates the user moves to: today, and the same time on 1970-02-01
AppDates == {Today, Today + FirstDayOfMonth(2) * DayLength}

Views == {"month", "week", "day"}

\* no function of the client has been applied
NoCalc == <<>>

Init ==
    /\ events = <<>>
    /\ nextId = 1
    /\ now = 0
    /\ puts = [p \in Procs |-> IdlePut]
    /\ last = [p \in Procs |-> NoRequest]
    /\ app = Unmounted(Today)
    /\ calls = [p \in Procs |-> NoCall]
    /\ calc = NoCalc
    /\ form = NoForm

\* no request is being handled
Quiet == \A p \in Procs : puts[p].pc = "idle"

\* requests that each run to completion before the next one starts; the
\* clock, which no handler reads but to stamp createdAt and updatedAt, stands
NextSeq ==
    \/ \E body \in TimeBodies : Quiet /\ PostEvent(1, body)
    \/ \E id \in RequestIds, body \in TimeUpdates : Quiet /\ PutFind(1, id, body)
    \/ PutPrepare(1)
    \/ PutUpdate(1)
    \/ \E id \in RequestIds : Quiet /\ DeleteEvent(1, id)
    \/ \E id \in RequestIds : Quiet /\ GetEvent(1, id)
    \/ \E query \in Queries : Quiet /\ GetEvents(1, query)
    \/ Deliver(1)

SpecSeq == Init /\ [][NextSeq]_vars

\* a POST body with every field, the times s and e
FullBody(s, e) ==
    Body(TitleA, Str(<<"d">>), s, e, Bool(TRUE), Str(<<"#", "e">>), Str(<<"l">>),
         Str(<<"w", "e", "e", "k", "l", "y">>))

FullBodies == {FullBody(Iso(s), Iso(e)) : s, e \in Times}

\* PUT bodies of one field: a start or an end
FieldUpdates ==
    {[EmptyBody EXCEPT !.startTime = Iso(k)] : k \in Times}
    \cup {[EmptyBody EXCEPT !.endTime = Iso(k)] : k \in Times}

\* requests of two clients on one stored event, handled together: client 1
\* creates the event when none is stored
Next ==
    \/ Tick
    \/ \E body \in FullBodies : events = <<>> /\ PostEvent(1, body)
    \/ \E p \in Procs, id \in RequestIds, body \in FieldUpdates : PutFind(p, id, body)
    \/ \E p \in Procs : PutPrepare(p)
    \/ \E p \in Procs : PutUpdate(p)
    \/ \E p \in Procs, id \in RequestIds : DeleteEvent(p, id)
    \/ \E p \in Procs : Deliver(p)

Spec == Init /\ [][Next]_vars

\* a POST body of a title and the times s and e
TitleBody(title, s, e) == Body(title, Undef, s, e, Undef, Undef, Undef, Undef)

\* titles: none, empty, blank, padded, too long, not a string
Titles ==
    {Undef, Str(<<>>), Str(<<" ">>), Str(<<" ", "b", " ">>),
     Str(Chars(TitleMaxLength + 1)), Num(7)}

\* POST bodies that vary the fields, for a start before, at and after the end
FieldBodies ==
    UNION {
        {FullBody(s, e), TitleBody(TitleA, s, e)}
        \cup {TitleBody(t, s, e) : t \in Titles}
        \cup {[FullBody(s, e) EXCEPT !.description = Str(Chars(DescriptionMaxLength + 1))],
              [FullBody(s, e) EXCEPT !.location = Str(Chars(LocationMaxLength + 1))],
              [FullBody(s, e) EXCEPT !.recurring = Str(<<"h">>)]}
        : s, e \in {Iso(0), Iso(1)}}

\* PUT bodies that vary the fields they supply
FieldSets ==
    {EmptyBody,
     [EmptyBody EXCEPT !.title = Str(<<" ", "b", " ">>)],
     [EmptyBody EXCEPT !.allDay = Bool(TRUE),
                       !.recurring = Str(<<"w", "e", "e", "k", "l", "y">>)],
     [EmptyBody EXCEPT !.description = Str(<<"d">>), !.color = Str(<<"#", "e">>),
                       !.location = Str(<<"l">>)],
     FullBody(Iso(1), Iso(MaxTime)),
     [EmptyBody EXCEPT !.title = Str(<<" ">>)],
     [EmptyBody EXCEPT !.title = Str(Chars(TitleMaxLength + 1))],
     [EmptyBody EXCEPT !.description = Str(Chars(DescriptionMaxLength + 1))],
     [EmptyBody EXCEPT !.location = Str(Chars(LocationMaxLength + 1))],
     [EmptyBody EXCEPT !.recurring = Str(<<"h">>)]}

\* requests that each run to completion before the next one starts, with
\* bodies that vary the fields
NextFields ==
    \/ Tick
    \/ \E body \in FieldBodies : Quiet /\ PostEvent(1, body)
    \/ \E id \in RequestIds, body \in FieldSets : Quiet /\ PutFind(1, id, body)
    \/ PutPrepare(1)
    \/ PutUpdate(1)
    \/ \E id \in RequestIds : Quiet /\ DeleteEvent(1, id)
    \/ Deliver(1)

SpecFields == Init /\ [][NextFields]_vars

\* errors of the store that no handler expects: with and without a message
StoreErrors ==
    {StoreError("MongoNetworkError", "connect ECONNREFUSED"),
     StoreError("MongoServerError", "")}

\* a call of the store by handler instance p throws error
StoreFails(p, error) ==
    \/ \E query \in Queries : Quiet /\ GetEventsFails(p, query, error)
    \/ \E id \in RequestIds : Quiet /\ GetEventFails(p, id, error)
    \/ \E body \in TimeBodies : Quiet /\ PostEventFails(p, body, error)
    \/ \E id \in RequestIds, body \in TimeUpdates : Quiet /\ PutFindFails(p, id, body, error)
    \/ PutUpdateFails(p, error)
    \/ \E id \in RequestIds : Quiet /\ DeleteEventFails(p, id, error)

\* requests that run one at a time, against a store whose calls can throw
NextFail ==
    \/ NextSeq
    \/ \E error \in StoreErrors : StoreFails(1, error)

SpecFail == Init /\ [][NextFail]_vars

\* the data the modal passes to onSave: every field of the form
SaveData == {FullBody(Iso(0), Iso(1)), FullBody(Iso(1), Iso(MaxTime))}

\* connection p is the first that is free
FirstFree(p) == Free(p) /\ \A q \in Procs : q < p => ~Free(q)

\* a call of the store by the handler of connection p throws error
ServeFails(p, error) ==
    LET c == calls[p]
    IN  \/ c.wait = "LIST" /\ GetEventsFails(p, c.query, error)
        \/ c.wait = "POST" /\ PostEventFails(p, c.body, error)
        \/ c.wait = "PUT" /\ PutFindFails(p, c.id, c.body, error)
        \/ c.wait = "DELETE" /\ DeleteEventFails(p, c.id, error)

\* handler instance p answers the getEvents of connection p
ServeGetEvents(p) == calls[p].wait = "LIST" /\ GetEvents(p, calls[p].query)

\* handler instance p answers the createEvent of connection p
ServeCreateEvent(p) == calls[p].wait = "POST" /\ PostEvent(p, calls[p].body)

\* the App and the server while the user changes the view and the date and
\* creates events: the server answers the calls of the App, and the
\* responses arrive or are lost
NextView ==
    \/ \E p \in Procs : FirstFree(p) /\ Mount(p)
    \/ \E p \in Procs, view \in Views : FirstFree(p) /\ SetView(p, view)
    \/ \E p \in Procs, date \in AppDates : FirstFree(p) /\ SetCurrentDate(p, date)
    \/ onCreateEvent
    \/ \E p \in Procs : FirstFree(p) /\ onSave(p, FullBody(Iso(0), Iso(1)))
    \/ \E p \in Procs : ServeGetEvents(p)
    \/ \E p \in Procs : ServeCreateEvent(p)
    \/ \E p \in Procs : Receive(p)

SpecView == Init /\ [][NextView]_vars

\* the App and the server while the user works with the modal, in the view
\* and at the date of the first render, with one call of the App at a time
NextApp ==
    \/ FirstFree(1) /\ Mount(1)
    \/ handleDateClick(Today)
    \/ \E k \in 1..MaxEvents : handleEventClick(k)
    \/ onCreateEvent
    \/ handleCloseModal
    \/ hideNotification
    \/ \E data \in SaveData : FirstFree(1) /\ onSave(1, data)
    \/ FirstFree(1) /\ onDelete(1)
    \/ Serve(1)
    \/ \E error \in StoreErrors : ServeFails(1, error)
    \/ Receive(1)
    \/ Timeout(1)

SpecApp == Init /\ [][NextApp]_vars

\* the day the views render: 1970-01-02
ViewDay == DayLength

\* the dates of that day given to the views: its 00:00, and new Date() at
\* 09:00 and some seconds
ViewDates == {ViewDay, ViewDay + 9 * HourLength + (MinuteLength - 1)}

\* instants of events around the day and around its slot of 09:00
EventInstants ==
    {ViewDay - HourLength, ViewDay - 1, ViewDay,
     ViewDay + 9 * HourLength, ViewDay + 9 * HourLength + (MinuteLength - 1),
     ViewDay + 10 * HourLength, ViewDay + 10 * HourLength + (MinuteLength - 1),
     ViewDay + DayLength - 1, ViewDay + DayLength,
     ViewDay + DayLength + HourLength}

\* events the server can store: they end after they start
ViewEvents ==
    {x \in {ViewEvent(s, e, a) :
                s \in EventInstants, e \in EventInstants, a \in BOOLEAN} :
        parseISO(x.endTime) > parseISO(x.startTime)}

\* events lists of up to two events
EventLists ==
    {<<>>} \cup {<<x>> : x \in ViewEvents}
           \cup {<<x, y>> : x \in ViewEvents, y \in ViewEvents}

\* the hours of the slots
SlotHours == {0, 9, 10, 23}

\* the props of a view, before it renders them
Props(evs, date, hour) ==
    [fn |-> "props", events |-> evs, day |-> date, hour |-> hour]

\* the server and the App as they start, and the props of a view
InitRender ==
    /\ events = <<>>
    /\ nextId = 1
    /\ now = 0
    /\ puts = [p \in Procs |-> IdlePut]
    /\ last = [p \in Procs |-> NoRequest]
    /\ app = Unmounted(Today)
    /\ calls = [p \in Procs |-> NoCall]
    /\ calc \in {<<Props(evs, date, hour)>> :
                    evs \in EventLists, date \in ViewDates, hour \in SlotHours}
    /\ form = NoForm

\* the props are there and no view has rendered them
HasProps == calc # <<>> /\ calc[1].fn = "props"

\* a view renders its props; WeekView renders the column of the day of
\* the date, one of getDaysInWeekView; the filter of the server is applied
\* for the range of the day and for the range of the date alone
NextRender ==
    \/ HasProps /\ RenderWeekDay(calc[1].events, getDayStart(calc[1].day))
    \/ HasProps /\ RenderDayView(calc[1].events, calc[1].day)
    \/ HasProps /\ SlotEvents(calc[1].events, calc[1].day, calc[1].hour)
    \/ HasProps /\ RangeEvents(calc[1].events, getDayStart(calc[1].day),
                               getDayEnd(calc[1].day))
    \/ HasProps /\ RangeEvents(calc[1].events, calc[1].day, calc[1].day)
    \/ HasProps /\ DaySlots(calc[1].events, getDayStart(calc[1].day))

SpecRender == InitRender /\ [][NextRender]_vars

\* the event prop of the modal: none (the Create button), the event of
\* handleDateClick, a stored all-day event, a stored event of two days
ModalEvents ==
    {<<>>,
     <<ViewEvent(Today, Today + HourLength, FALSE)>>,
     <<ViewEvent(ViewDay, ViewDay + DayLength - 1, TRUE)>>,
     <<ViewEvent(Today, Today + DayLength, FALSE)>>}

\* the offsets of the browser's time zone from UTC: UTC, and five hours west
ZoneOffsets == {0, 0 - 5 * HourLength}

\* the days and the minutes of the day the user picks in the inputs
FormDays == {0, 1}
FormMinutes == {540, 600}

\* the values the user can give to an input of the type the form renders
\* (lines 266, 280): a date when allDay is checked, else a date and a time
InputValues(allDay) ==
    IF allDay THEN {DateString(d) : d \in FormDays}
    ELSE {LocalString(d, m) : d \in FormDays, m \in FormMinutes}

\* the user works with the form of the modal and submits it
NextForm ==
    \/ \E event \in ModalEvents, zone \in ZoneOffsets : OpenModal(event, Today, zone)
    \/ \E checked \in BOOLEAN : handleChangeAllDay(checked)
    \/ \E title \in {Str(<<>>), TitleA} : handleChange("title", title)
    \/ form # NoForm /\ \E name \in {"startTime", "endTime"},
                           value \in InputValues(form[1].formData.allDay) :
            handleChange(name, value)
    \/ handleSubmit

SpecForm == Init /\ [][NextForm]_vars

\* new Date() when the App of the month view is constructed: 1970-03-15 09:00
MarchDate == FirstDayOfMonth(3) * DayLength + 14 * DayLength + 9 * HourLength

\* 1970-04-15 09:00
AprilDate == FirstDayOfMonth(4) * DayLength + 14 * DayLength + 9 * HourLength

\* 09:00 of 1970-03-31
LastOfMarch == FirstDayOfMonth(4) * DayLength - DayLength + 9 * HourLength

\* the events the user creates: of two days inside March, from the last day
\* of March to the first of April, and from the first to the third of April
MonthData ==
    {FullBody(Iso(MarchDate), Iso(MarchDate + DayLength)),
     FullBody(Iso(LastOfMarch), Iso(LastOfMarch + DayLength)),
     FullBody(Iso(LastOfMarch + DayLength), Iso(LastOfMarch + 3 * DayLength))}

InitMonth ==
    /\ events = <<>>
    /\ nextId = 1
    /\ now = 0
    /\ puts = [p \in Procs |-> IdlePut]
    /\ last = [p \in Procs |-> NoRequest]
    /\ app = Unmounted(MarchDate)
    /\ calls = [p \in Procs |-> NoCall]
    /\ calc = NoCalc
    /\ form = NoForm

\* the App in month view while the user creates events of several days and
\* moves between March and April, with one call of the App at a time
NextMonth ==
    \/ FirstFree(1) /\ Mount(1)
    \/ \E date \in {MarchDate, AprilDate} : FirstFree(1) /\ SetCurrentDate(1, date)
    \/ onCreateEvent
    \/ handleCloseModal
    \/ \E data \in MonthData : FirstFree(1) /\ onSave(1, data)
    \/ ServeGetEvents(1)
    \/ ServeCreateEvent(1)
    \/ Receive(1)

SpecMonth == InitMonth /\ [][NextMonth]_vars

\* 09:00 of a day of a month of 1970
DateOfYear(month, day) ==
    (FirstDayOfMonth(month) + day - 1) * DayLength + 9 * HourLength

\* new Date() when the App that navigates is constructed: the 15th, 29th,
\* 30th and 31st of January
NavDates == {DateOfYear(1, 15), DateOfYear(1, 29), DateOfYear(1, 30), DateOfYear(1, 31)}

InitNav ==
    /\ events = <<>>
    /\ nextId = 1
    /\ now = 0
    /\ puts = [p \in Procs |-> IdlePut]
    /\ last = [p \in Procs |-> NoRequest]
    /\ app \in {Unmounted(date) : date \in NavDates}
    /\ calls = [p \in Procs |-> NoCall]
    /\ calc = NoCalc
    /\ form = NoForm

\* the direction keeps the date in 1970, the year of the dates
StaysInYear(direction) ==
    IF direction = "next" THEN MonthOf(app.currentDate) < 12
    ELSE MonthOf(app.currentDate) > 1

\* the App in month view while the user navigates, with one call of the App
\* at a time
NextNav ==
    \/ FirstFree(1) /\ Mount(1)
    \/ \E direction \in {"next", "prev"} :
            FirstFree(1) /\ StaysInYear(direction) /\ navigateDate(1, direction)
    \/ ServeGetEvents(1)
    \/ Receive(1)

SpecNav == InitNav /\ [][NextNav]_vars

----------------------------------------------------------------------------
(* Steps *)

\* the step answers a request of handler instance p
Answers(p) == last[p] = NoRequest /\ last'[p] # NoRequest

\* the events collection without the document of id
Without(id) == [i \in DOMAIN events \ {id} |-> events[i]]

----------------------------------------------------------------------------
(* Claims *)

\* C1: after POST, PUT and DELETE requests that each run to completion
\* before the next starts, every stored event ends strictly after it starts.
C1_EndAfterStart ==
    \A i \in DOMAIN events : events[i].endTime > events[i].startTime

\* a PUT of startTime alone has moved the start of an event, after a DELETE
C1_Witness ==
    /\ last[1].op = "PUT" /\ last[1].status = 200
    /\ last[1].body.startTime.t = "isostring"
    /\ last[1].body.endTime.t = "undefined"
    /\ last[1].data # <<>>
    /\ last[1].data[1].startTime = 1
    /\ Cardinality(DOMAIN events) < nextId - 1

\* C2: every stored event ends strictly after it starts, also when two PUTs
\* of one event interleave, each reading the record before either writes.
C2_EndAfterStartInterleaved ==
    \A i \in DOMAIN events : ~(events[i].endTime <= events[i].startTime)

\* a POST of a title that is no string, with endTime equal to startTime, was
\* answered 400 while an event is stored
C3_Witness ==
    /\ last[1].op = "POST" /\ last[1].status = 400
    /\ last[1].body.title.t = "number"
    /\ last[1].body.endTime = last[1].body.startTime
    /\ events # <<>>

\* a value of a body or of the query string that parses as a timestamp
Parses(v) == ~IsNaN(NewDate(v))

\* the body supplies field f
Supplies(body, f) == body[f].t # "undefined"

\* the documents of a response, as a set
DataSet(r) == {r.data[k] : k \in 1..Len(r.data)}

\* C3: every POST whose endTime is earlier than or equal to its startTime
\* is answered 400 and adds no record to the store, whatever the other
\* fields of the body are.
C3_PostEndNotAfterStart ==
    [][\A p \in Procs :
        LET r == last'[p]
        IN  ( /\ Answers(p)
              /\ r.op = "POST"
              /\ Parses(r.body.startTime) /\ Parses(r.body.endTime)
              /\ NewDate(r.body.endTime) <= NewDate(r.body.startTime) )
            => /\ r.status = 400
               /\ r.data = <<>>
               /\ events' = events]_vars

\* C4: a PUT that supplies exactly one of startTime and endTime for an
\* existing event is answered 200 if and only if the supplied value and the
\* stored value of the other field satisfy endTime > startTime; otherwise
\* it is answered 400 and the store is unchanged.
C4_PartialUpdate ==
    [][\A p \in Procs :
        LET r == last'[p]
            e == events[r.id]
            ok == IF Supplies(r.body, "startTime")
                  THEN Parses(r.body.startTime) /\ e.endTime > NewDate(r.body.startTime)
                  ELSE Parses(r.body.endTime) /\ NewDate(r.body.endTime) > e.startTime
        IN  ( /\ Answers(p)
              /\ r.op = "PUT"
              /\ r.id \in DOMAIN events
              /\ Supplies(r.body, "startTime") # Supplies(r.body, "endTime") )
            => /\ (r.status = 200) = ok
               /\ ok => r.data = <<events'[r.id]>>
               /\ ~ok => r.status = 400 /\ events' = events]_vars

\* a PUT of endTime alone was refused: the new end is the stored start
C4_Witness ==
    /\ last[1].op = "PUT" /\ last[1].status = 400
    /\ last[1].id \in DOMAIN events
    /\ last[1].body.startTime.t = "undefined"
    /\ last[1].body.endTime.t = "isostring"
    /\ last[1].body.endTime.n = events[last[1].id].startTime
    /\ events[last[1].id].startTime > 0

\* C5: a list request with parseable bounds s <= e returns exactly the
\* stored events that start in [s, e], or end in [s, e], or start at or
\* before s and end at or after e.
C5_RangeFilter ==
    \A p \in Procs :
        LET r == last[p]
            s == NewDate(r.query.startDate)
            e == NewDate(r.query.endDate)
        IN  (r.op = "LIST" /\ Parses(r.query.startDate) /\ Parses(r.query.endDate) /\ s <= e)
            => /\ r.status = 200
               /\ DataSet(r) =
                      {events[i] : i \in {j \in DOMAIN events :
                          \/ s <= events[j].startTime /\ events[j].startTime <= e
                          \/ s <= events[j].endTime /\ events[j].endTime <= e
                          \/ events[j].startTime <= s /\ events[j].endTime >= e}}

\* of two stored events, the one that starts before s and ends after e was
\* returned
C5_Witness ==
    /\ last[1].op = "LIST" /\ last[1].status = 200
    /\ Parses(last[1].query.startDate) /\ Parses(last[1].query.endDate)
    /\ \E d \in DataSet(last[1]) :
          /\ d.startTime < NewDate(last[1].query.startDate)
          /\ d.endTime > NewDate(last[1].query.endDate)
    /\ Cardinality(DOMAIN events) = 2

\* the query string gives parameter v a value
Given(v) == v.t # "undefined" /\ v # Str(<<>>)

\* C6: a list request that gives both startDate and endDate is answered
\* 400 with no events when a bound does not parse or endDate is earlier
\* than startDate, and 200 when endDate equals startDate.
C6_RangeValidation ==
    \A p \in Procs :
        LET r == last[p]
            s == NewDate(r.query.startDate)
            e == NewDate(r.query.endDate)
        IN  (r.op = "LIST" /\ Given(r.query.startDate) /\ Given(r.query.endDate))
            => /\ (~Parses(r.query.startDate) \/ ~Parses(r.query.endDate) \/ e < s)
                      => r.status = 400 /\ r.data = <<>>
               /\ (Parses(r.query.startDate) /\ Parses(r.query.endDate) /\ e >= s)
                      => r.status = 200

\* a request with endDate equal to startDate was answered with an event
C6_Witness ==
    /\ last[1].op = "LIST" /\ last[1].status = 200
    /\ Parses(last[1].query.startDate)
    /\ last[1].query.endDate = last[1].query.startDate
    /\ last[1].data # <<>>

\* C7: GET, PUT and DELETE of a malformed id are answered 400, of a
\* well-formed id with no stored record 404, and leave the store unchanged.
C7_BadId ==
    [][\A p \in Procs :
        LET r == last'[p]
        IN  (Answers(p) /\ r.op \in {"GET", "PUT", "DELETE"})
            => /\ r.id = MalformedId => r.status = 400 /\ events' = events
               /\ (r.id # MalformedId /\ r.id \notin DOMAIN events)
                      => r.status = 404 /\ events' = events]_vars

\* a PUT of an id with no record was answered 404 while an event is stored
C7_Witness ==
    /\ last[1].op = "PUT" /\ last[1].status = 404
    /\ last[1].id # MalformedId
    /\ last[1].body.endTime.t = "isostring"
    /\ events # <<>>

\* C8: a PUT answered 200 has the updated record as its body; a PUT whose
\* record is gone when it writes, removed by a DELETE after the PUT found
\* it, is answered 404.
C8_PutOfDeleted ==
    \A p \in Procs :
        (last[p].op = "PUT" /\ last[p].status = 200)
        => /\ last[p].data # <<>>
           /\ last[p].data[1]._id = last[p].id

\* the stored value of field f that the body value v sets
Stored(f, v) ==
    CASE f = "title" -> Trim(v.s)
      [] f \in {"startTime", "endTime"} -> NewDate(v)
      [] f = "allDay" -> v.n = 1
      [] OTHER -> v.s

\* C9: a PUT answered 200 with the record of event X gives the fields of X
\* that the body supplies their new values and sets X's updatedAt; every
\* omitted field of X, X's id and createdAt, and every other stored event
\* keep their previous values.
C9_PutFrame ==
    [][\A p \in Procs :
        LET r == last'[p]
        IN  (Answers(p) /\ r.op = "PUT" /\ r.status = 200 /\ r.id \in DOMAIN events)
            => /\ DOMAIN events' = DOMAIN events
               /\ \A i \in DOMAIN events \ {r.id} : events'[i] = events[i]
               /\ events'[r.id]._id = events[r.id]._id
               /\ events'[r.id].createdAt = events[r.id].createdAt
               /\ events'[r.id].updatedAt \in events[r.id].updatedAt..now
               /\ \A f \in Fields :
                      events'[r.id][f] = IF Supplies(r.body, f)
                                         THEN Stored(f, r.body[f])
                                         ELSE events[r.id][f]
               /\ r.data = <<events'[r.id]>>]_vars

\* a PUT of the title alone has changed one of two stored events, later
\* than its creation, and the event keeps its description
C9_Witness ==
    /\ last[1].op = "PUT" /\ last[1].status = 200
    /\ Supplies(last[1].body, "title")
    /\ ~Supplies(last[1].body, "description")
    /\ last[1].id \in DOMAIN events
    /\ events[last[1].id].updatedAt > events[last[1].id].createdAt
    /\ events[last[1].id].description # <<>>
    /\ Cardinality(DOMAIN events) = 2

\* C10: a DELETE of an existing event removes that record and no other and
\* is answered 200 with the record as it was; every later GET, PUT and
\* DELETE of that id is answered 404.
C10_Delete ==
    [][\A p \in Procs :
        LET r == last'[p]
        IN  /\ (Answers(p) /\ r.op = "DELETE" /\ r.id \in DOMAIN events)
               => /\ r.status = 200
                  /\ r.data = <<events[r.id]>>
                  /\ events' = Without(r.id)
            /\ ( /\ Answers(p) /\ r.op \in {"GET", "PUT", "DELETE"}
                  /\ r.id \in 1..(nextId - 1) /\ r.id \notin DOMAIN events )
               => r.status = 404 /\ events' = events]_vars

\* the second DELETE of an id was answered 404 and another event is stored
C10_Witness ==
    /\ last[1].op = "DELETE" /\ last[1].status = 404
    /\ last[1].id \in 1..(nextId - 1)
    /\ events # <<>>

\* C11: a request answered 400, 404 or 500 leaves the store as it was: a
\* failed POST, PUT or DELETE creates, changes and removes no record.
C11_FailureKeepsStore ==
    [][\A p \in Procs :
        (Answers(p) /\ last'[p].status \in {400, 404, 500})
        => events' = events]_vars

\* a PUT of an existing event was refused by the validators of the write
C11_Witness ==
    /\ last[1].op = "PUT" /\ last[1].status = 400
    /\ last[1].error = "Validation failed"
    /\ last[1].id \in DOMAIN events
    /\ Supplies(last[1].body, "recurring")

\* C12: a PUT answered 200 with the record sets the record's updatedAt to a
\* time not earlier than its previous updatedAt, also when two PUTs of the
\* record interleave between taking the timestamp and writing it.
C12_UpdatedAtNotEarlier ==
    [][\A p \in Procs :
        LET r == last'[p]
        IN  (Answers(p) /\ r.op = "PUT" /\ r.status = 200 /\ r.id \in DOMAIN events)
            => events'[r.id].updatedAt >= events[r.id].updatedAt]_vars

\* C13: in every list response, with or without a range, no event is
\* followed by an event with an earlier startTime.
C13_ListAscending ==
    \A p \in Procs :
        LET r == last[p]
        IN  (r.op = "LIST" /\ r.status = 200)
            => \A i, j \in 1..Len(r.data) :
                   i < j => r.data[i].startTime <= r.data[j].startTime

\* a list without a range returned two events, the later created first
C13_Witness ==
    /\ last[1].op = "LIST" /\ last[1].status = 200
    /\ ~Given(last[1].query.startDate)
    /\ Len(last[1].data) = 2
    /\ last[1].data[1]._id > last[1].data[2]._id
    /\ last[1].data[1].startTime < last[1].data[2].startTime

\* the text a handler sends when an error has no message
Generic(op) ==
    CASE op = "LIST" -> "Failed to fetch events"
      [] op = "GET" -> "Failed to fetch event"
      [] op = "POST" -> "Failed to create event"
      [] op = "PUT" -> "Failed to update event"
      [] op = "DELETE" -> "Failed to delete event"

\* C14: when a call of the store throws an error no handler expects, the
\* request is answered 500 with the fixed text of its operation, whatever
\* the message of the store's error is.
C14_GenericError ==
    [][\A p \in Procs, error \in StoreErrors :
        StoreFails(p, error)
        => /\ last'[p].status = 500
           /\ last'[p].error = Generic(last'[p].op)]_vars

\* handler instance p is about to write, and so is another instance that
\* read the same record of the same event
SharesRead(p) ==
    \E q \in Procs \ {p} :
        /\ puts[p].pc = "update" /\ puts[q].pc = "update"
        /\ puts[q].id = puts[p].id
        /\ puts[q].existing = puts[p].existing

\* handler instance p is about to write a record that has changed since p
\* read it
ReadIsStale(p) ==
    /\ puts[p].pc = "update"
    /\ puts[p].id \in DOMAIN events
    /\ puts[p].existing # <<events[puts[p].id]>>

\* C15: of two PUTs of one event that both read the same record and both
\* pass validation, each is answered 200 with no conflict reported, and
\* each write stores the values its body supplies, so that a field both
\* supply ends with the value written last.
C15_LastWriteWins ==
    [][\A p \in Procs :
        LET put == puts[p]
            r == last'[p]
        IN  (PutUpdate(p) /\ put.id \in DOMAIN events /\ (SharesRead(p) \/ ReadIsStale(p)))
            => /\ r.status = 200 /\ r.error = ""
               /\ \A f \in Fields :
                      Supplies(put.body, f) => events'[put.id][f] = Stored(f, put.body[f])
               /\ \A q \in Procs \ {p} : puts'[q] = puts[q]]_vars

\* the second of two PUTs that read the same record has written: both were
\* answered 200, both supply endTime, and the stored endTime is the one of
\* the second
C15_Witness ==
    \E p, q \in Procs :
        /\ p # q
        /\ last[p].op = "PUT" /\ last[p].status = 200
        /\ last[q].op = "PUT" /\ last[q].status = 200
        /\ last[p].id = last[q].id /\ last[p].id \in DOMAIN events
        /\ Supplies(last[p].body, "endTime") /\ Supplies(last[q].body, "endTime")
        /\ last[p].body.endTime # last[q].body.endTime
        /\ last[p].data[1].updatedAt > last[q].data[1].updatedAt
        /\ events[last[p].id] = last[q].data[1]

\* the range of the view and the date the App shows
CurrentRange == RangeQuery(app.view, app.currentDate)

\* C16: a change of the view or of the date leaves a fetch in flight as it
\* is, and the response of a fetch for another range than the current one
\* is stored as the events list all the same.
C16_StaleFetch ==
    [][\A p \in Procs :
        /\ (app'.view # app.view \/ app'.currentDate # app.currentDate)
               => (calls[p] # NoCall => calls'[p] = calls[p] /\ last'[p] = last[p])
        /\ ( /\ Receive(p)
             /\ calls[p].kind = "fetchEvents"
             /\ last[p].status = 200
             /\ calls[p].query # CurrentRange )
               => app'.events = last[p].data]_vars

\* no fetch is in flight, and the list shown is the response for another
\* range than the current one: it has an event, and the store has none in
\* the current range
C16_Witness ==
    /\ \A p \in Procs : calls[p] = NoCall
    /\ app.fetched # EmptyQuery
    /\ app.fetched # CurrentRange
    /\ app.events # <<>>
    /\ Found(CurrentRange) = {}

\* the request of connection p fails in this step: its response has an
\* error status, or none comes in time
RequestFails(p) ==
    \/ Receive(p) /\ last[p].status \notin 200..299
    \/ Timeout(p)

\* the App shows an error notification
ShowsError(a) == a.notification # <<>> /\ a.notification[1].type = "error"

\* C17: when the request of a create, update or delete fails, the App
\* shows an error notification, leaves the modal, the selected event and
\* the events list as they are and sends no further request; when a fetch
\* fails, the App shows an error notification and leaves the events list
\* as it is.
C17_FailureIsShown ==
    [][\A p \in Procs :
        /\ (RequestFails(p) /\ calls[p].wait # "LIST")
               => /\ ShowsError(app')
                  /\ app'.isModalOpen = app.isModalOpen
                  /\ app'.selectedEvent = app.selectedEvent
                  /\ app'.events = app.events
                  /\ calls'[p] = NoCall
        /\ (RequestFails(p) /\ calls[p].wait = "LIST")
               => /\ ShowsError(app')
                  /\ app'.events = app.events]_vars

\* the inclusive overlap of an event [eStart, eEnd] and [qStart, qEnd]
InclusiveOverlap(eStart, eEnd, qStart, qEnd) ==
    \/ qStart <= eStart /\ eStart <= qEnd
    \/ qStart <= eEnd /\ eEnd <= qEnd
    \/ eStart <= qStart /\ eEnd >= qEnd

\* 00:00:00.000 and 23:59:59.999 of the day of a date
FirstInstant(date) == DayNumber(date) * DayLength
LastInstant(date) == (DayNumber(date) + 1) * DayLength - 1

\* the events of a list with an inclusive overlap with the day of a date
OverlapTheDay(evs, date) ==
    SelectSeq(evs, LAMBDA event :
        InclusiveOverlap(event.startTime.n, event.endTime.n,
                         FirstInstant(date), LastInstant(date)))

\* a view has rendered
HasRendered(view) == calc # <<>> /\ calc[1].fn = view

\* C18: for every events list and every day, getEventsForDay and the filter
\* of the day view both select exactly the events with an inclusive overlap
\* with [00:00:00.000, 23:59:59.999] of the day, hence the same events.
C18_DayFiltersAgree ==
    /\ HasRendered("DayView") =>
          /\ calc[1].shown = OverlapTheDay(calc[1].events, calc[1].day)
          /\ calc[1].shown = getEventsForDay(calc[1].events, calc[1].day)
    /\ HasRendered("WeekView") =>
          calc[1].shown = OverlapTheDay(calc[1].events, calc[1].day)

\* the day view has rendered a date with a time of day: it shows an event
\* that starts at the last instant of the day and one that contains the
\* day
C18_Witness ==
    /\ HasRendered("DayView")
    /\ calc[1].day # FirstInstant(calc[1].day)
    /\ Len(calc[1].shown) = 2
    /\ calc[1].shown[1].startTime.n = LastInstant(calc[1].day)
    /\ calc[1].shown[2].startTime.n < FirstInstant(calc[1].day)
    /\ calc[1].shown[2].endTime.n > LastInstant(calc[1].day)

\* the slot of an hour of a date: from the hour's minute 0, at the seconds
\* of the date, to one hour later
SlotStartOf(date, hour) ==
    FirstInstant(date) + hour * HourLength + (date % MinuteLength)
SlotEndOf(date, hour) == SlotStartOf(date, hour) + HourLength

\* the half-open overlap of an event and the slot
HalfOpenOverlap(eStart, eEnd, slotStart, slotEnd) ==
    \/ slotStart <= eStart /\ eStart < slotEnd
    \/ slotStart < eEnd /\ eEnd <= slotEnd
    \/ eStart <= slotStart /\ eEnd >= slotEnd

\* the event is one of a list
IsOneOf(event, evs) == \E k \in DOMAIN evs : evs[k] = event

\* C19: getEventsForTimeSlot includes an event in the slot of an hour if and
\* only if slotStart <= eStart < slotEnd, or slotStart < eEnd <= slotEnd, or
\* the event contains the slot, where slotEnd is one hour after slotStart;
\* an event that starts exactly at slotEnd or ends exactly at slotStart is
\* not in the slot.
C19_SlotHalfOpen ==
    HasRendered("getEventsForTimeSlot") =>
        LET slotStart == SlotStartOf(calc[1].day, calc[1].hour)
            slotEnd == SlotEndOf(calc[1].day, calc[1].hour)
        IN  /\ calc[1].shown =
                   SelectSeq(calc[1].events, LAMBDA event :
                       HalfOpenOverlap(event.startTime.n, event.endTime.n,
                                       slotStart, slotEnd))
            /\ \A k \in DOMAIN calc[1].events :
                   (\/ calc[1].events[k].startTime.n = slotEnd
                    \/ calc[1].events[k].endTime.n = slotStart)
                       => ~IsOneOf(calc[1].events[k], calc[1].shown)

\* the slot of 09:00 has been taken of an event that ends exactly at the
\* slot's end, which is in the slot, and one that starts there, which is not
C19_Witness ==
    /\ HasRendered("getEventsForTimeSlot")
    /\ calc[1].hour = 9
    /\ Len(calc[1].events) = 2
    /\ calc[1].events[1].endTime.n = SlotEndOf(calc[1].day, 9)
    /\ calc[1].events[2].startTime.n = SlotEndOf(calc[1].day, 9)
    /\ calc[1].shown = <<calc[1].events[1]>>

\* the minutes of a date since 00:00 of its day: 60 * hour + minute
MinuteOfDay(date) == 60 * getHours(date) + getMinutes(date)

\* the layout of the claim for an event shown on the day of a date: from the
\* event's interval clamped to the day
ClampedPosition(event, date) ==
    LET clampedStart == Max(event.startTime.n, FirstInstant(date))
        clampedEnd == IF event.endTime.n > LastInstant(date)
                      THEN LastInstant(date) ELSE event.endTime.n
        top == MinuteOfDay(clampedStart)
    IN  Position(top, Max(MinuteOfDay(clampedEnd) - top, 20), FALSE)

\* the positions a view has rendered are those of the clamped intervals
LaysOutClamped(view) ==
    HasRendered(view) =>
        \A k \in DOMAIN calc[1].positions :
            /\ calc[1].positions[k] =
                   ClampedPosition(Timed(calc[1].shown)[k], calc[1].day)
            /\ calc[1].positions[k].top \in 0..1439
            /\ calc[1].positions[k].height >= 20

\* C20: in the week view and in the day view, the layout of every event
\* that is not all-day and is shown on day D is computed from the event's
\* interval clamped to [D 00:00:00.000, D 23:59:59.999]: top is 60 * hour +
\* minute of the clamped start, height is the larger of 20 and 60 * hour +
\* minute of the clamped end minus top; so 0 <= top <= 1439 and
\* height >= 20.
C20_ClampedLayout == LaysOutClamped("WeekView") /\ LaysOutClamped("DayView")

\* the day of the value of an input of the form
DayOfInput(value) == value.day

\* C21: submitting the form with allDay checked, a title and a start date
\* not later than the end date (the same date included) calls onSave with
\* startTime at 00:00:00.000 of the start date and endTime at 23:59:59.999
\* of the end date; also after allDay was checked on a form whose start and
\* end are on the same day.
C21_AllDaySubmit ==
    [][(/\ handleSubmit
        /\ form[1].formData.allDay
        /\ form[1].formData.title.s # <<>>
        /\ DayOfInput(form[1].formData.startTime)
               <= DayOfInput(form[1].formData.endTime))
          => /\ form'[1].saved # <<>>
             /\ form'[1].saved[1].startTime =
                    Iso(DayOfInput(form[1].formData.startTime) * DayLength)
             /\ form'[1].saved[1].endTime =
                    Iso((DayOfInput(form[1].formData.endTime) + 1) * DayLength - 1)
       ]_vars

\* no call of the App is in flight, and the events list is the response to
\* the fetch of the current view and date
FetchCompleted ==
    /\ app.mounted
    /\ \A p \in Procs : calls[p] = NoCall
    /\ app.fetched = CurrentRange

\* the stored event is of several days
SpansDays(doc) == DayNumber(doc.endTime) > DayNumber(doc.startTime)

\* C22: in month view, once the fetch for the current date has completed, an
\* event of several days appears in every rendered day cell whose day it
\* overlaps, the cells of the previous and the next month included.
C22_MonthCells ==
    (FetchCompleted /\ app.view = "month") =>
        \A id \in DOMAIN events :
            SpansDays(events[id]) =>
                \A k \in DOMAIN MonthCells(app.events, app.currentDate) :
                    LET cell == MonthCells(app.events, app.currentDate)[k]
                    IN  InclusiveOverlap(events[id].startTime, events[id].endTime,
                                         FirstInstant(cell.day), LastInstant(cell.day))
                            => IsOneOf(ViewOf(events[id]), cell.shown)

\* the events of a list that intersect [qStart, qEnd]
Intersecting(evs, qStart, qEnd) ==
    SelectSeq(evs, LAMBDA event :
        event.startTime.n <= qEnd /\ event.endTime.n >= qStart)

\* the events of a list that intersect the slot from slotStart to slotEnd:
\* they start before its end and end after its start
IntersectingSlot(evs, slotStart, slotEnd) ==
    SelectSeq(evs, LAMBDA event :
        event.startTime.n < slotEnd /\ event.endTime.n > slotStart)

\* C23: for events with eStart < eEnd and ranges with qStart <= qEnd, the
\* inclusive predicate of three clauses of the server's filter and of
\* getEventsForDay selects the events with eStart <= qEnd and
\* eEnd >= qStart, and the half-open predicate of three clauses of
\* getEventsForTimeSlot the events with eStart < slotEnd and
\* eEnd > slotStart.
C23_PlainIntersection ==
    /\ HasRendered("find") =>
          calc[1].shown = Intersecting(calc[1].events, calc[1].day, calc[1].last)
    /\ HasRendered("WeekView") =>
          calc[1].shown = Intersecting(calc[1].events, FirstInstant(calc[1].day),
                                       LastInstant(calc[1].day))
    /\ HasRendered("getEventsForTimeSlot") =>
          calc[1].shown =
              IntersectingSlot(calc[1].events,
                               SlotStartOf(calc[1].day, calc[1].hour),
                               SlotEndOf(calc[1].day, calc[1].hour))

\* the filter of the server has been applied to the range of a day, to an
\* event that contains the day, which it selects, and to one that ends
\* before it, which it does not
C23_Witness ==
    /\ HasRendered("find")
    /\ calc[1].day < calc[1].last
    /\ Len(calc[1].events) = 2
    /\ calc[1].events[1].startTime.n < calc[1].day
    /\ calc[1].events[1].endTime.n > calc[1].last
    /\ calc[1].events[2].endTime.n < calc[1].day
    /\ calc[1].shown = <<calc[1].events[1]>>

\* the event is in the slot of at least one hour of the day
InSomeSlot(event) == \E hour \in 0..23 : IsOneOf(event, calc[1].slots[hour])

\* C24 as stated: for every day D at 00:00:00.000 and every event with
\* endTime > startTime, the event is in getEventsForDay(events, D) if and
\* only if it is in getEventsForTimeSlot(events, D, h) for at least one hour
\* h of 0..23; an event that ends at D 00:00:00.000 is not shown on day D.
C24_DayIsItsSlots ==
    HasRendered("slots") =>
        \A k \in DOMAIN calc[1].events :
            /\ IsOneOf(calc[1].events[k], calc[1].shown)
                   <=> InSomeSlot(calc[1].events[k])
            /\ calc[1].events[k].endTime.n = calc[1].day
                   => ~IsOneOf(calc[1].events[k], calc[1].shown)

\* C24 as amended: the event is in getEventsForDay(events, D) if and only
\* if it is in the slot of at least one hour of D or ends at D 00:00:00.000;
\* an event that ends at D 00:00:00.000 is in getEventsForDay(events, D) and
\* in no slot of D.
C24_DayIsItsSlotsAndItsStart ==
    HasRendered("slots") =>
        \A k \in DOMAIN calc[1].events :
            /\ IsOneOf(calc[1].events[k], calc[1].shown)
                   <=> (\/ InSomeSlot(calc[1].events[k])
                        \/ calc[1].events[k].endTime.n = calc[1].day)
            /\ calc[1].events[k].endTime.n = calc[1].day
                   => /\ IsOneOf(calc[1].events[k], calc[1].shown)
                      /\ ~InSomeSlot(calc[1].events[k])

\* the events of a day and of its slots have been taken of an event that
\* ends at the day's first instant, which is of the day and of no slot, and
\* of an event that starts at the day's last instant, which is of the day
\* and of the slot of 23:00
C24_Witness ==
    /\ HasRendered("slots")
    /\ Len(calc[1].events) = 2
    /\ calc[1].events[1].endTime.n = calc[1].day
    /\ calc[1].events[2].startTime.n = LastInstant(calc[1].day)
    /\ calc[1].shown = calc[1].events
    /\ ~InSomeSlot(calc[1].events[1])
    /\ IsOneOf(calc[1].events[2], calc[1].slots[23])

\* the query string gives one of startDate and endDate and not the other
GivesOneBound(query) == Given(query.startDate) # Given(query.endDate)

\* C25: a list request that gives only one of startDate and endDate is
\* answered 200 with every stored event: the bound is not used as a filter
\* and is not validated, even when it does not parse as a timestamp.
C25_OneBoundIsNoRange ==
    [][\A p \in Procs :
        LET r == last'[p]
        IN  (Answers(p) /\ r.op = "LIST" /\ GivesOneBound(r.query))
            => /\ r.status = 200
               /\ DataSet(r) = {events[i] : i \in DOMAIN events}
               /\ Len(r.data) = Cardinality(DOMAIN events)]_vars

\* a list request with a startDate that does not parse and no endDate was
\* answered with the two stored events
C25_Witness ==
    /\ last[1].op = "LIST" /\ last[1].status = 200
    /\ Given(last[1].query.startDate) /\ ~Parses(last[1].query.startDate)
    /\ ~Given(last[1].query.endDate)
    /\ Len(last[1].data) = 2

\* handler instance q has answered a DELETE of id with the deleted record,
\* and the response is on its way
HasDeleted(q, id) ==
    last[q].op = "DELETE" /\ last[q].id = id /\ last[q].status = 200

\* C26: of two DELETE requests of the same existing event that run together,
\* one is answered 200 with the deleted record and the other 404; the record
\* is never returned as deleted twice.
C26_DeleteOnce ==
    [][\A p \in Procs : \A q \in Procs \ {p} :
        LET r == last'[p]
        IN  /\ (Answers(p) /\ r.op = "DELETE" /\ HasDeleted(q, r.id))
                   => r.status = 404 /\ r.data = <<>>
            /\ (Answers(p) /\ r.op = "DELETE" /\ r.id \in DOMAIN events)
                   => /\ r.status = 200 /\ r.data = <<events[r.id]>>
                      /\ ~HasDeleted(q, r.id)]_vars

\* two DELETE requests of the same event are answered and neither response
\* has reached its client: the first with the record, the second with 404
C26_Witness ==
    /\ HasDeleted(1, last[1].id)
    /\ last[2].op = "DELETE" /\ last[2].id = last[1].id
    /\ last[2].status = 404

\* a fetch of the App is in flight on connection p
FetchInFlight(p) == calls[p].wait = "LIST"

\* C27: the loading flag is true whenever at least one fetch is in flight
\* and false whenever none is, also when a second fetch starts before the
\* first has completed.
C27_LoadingWhileFetching ==
    app.loading <=> \E p \in Procs : FetchInFlight(p)

\* C28: in every reachable state of the client, if the modal is closed then
\* selectedEvent is null, after any sequence of date clicks, event clicks,
\* Create clicks, closes of the modal and completed or failed save and
\* delete requests.
C28_ClosedModalSelectsNothing ==
    ~app.isModalOpen => app.selectedEvent = <<>>

\* the modal was open on a stored event, and the delete of the event has
\* completed and closed it
C28_Witness ==
    /\ app.mounted
    /\ ~app.isModalOpen
    /\ app.selectedEvent = <<>>
    /\ app.notification = <<Notice(Succeeded("handleDeleteEvent"), "success")>>
    /\ events = <<>>

\* the save or delete handler of connection p ends in this step
Completes(p) ==
    /\ calls[p].kind \in {"handleCreateEvent", "handleUpdateEvent", "handleDeleteEvent"}
    /\ calls'[p] = NoCall

\* the modal that is open is not the one the handler of connection p was
\* called from: the handler creates and the modal edits a stored event, or
\* the handler updates or deletes an event and the modal is not on it
OtherModalOpen(p) ==
    /\ app.isModalOpen
    /\ IF calls[p].kind = "handleCreateEvent"
       THEN IsEditing(app)
       ELSE ~IsEditing(app) \/ app.selectedEvent[1]._id # calls[p].id

\* C29: the completion of a create, update or delete request closes the
\* modal and clears selectedEvent only if the modal that issued the request
\* is still the one open: a modal the user has opened for another event
\* while the request was in flight stays open with its selected event.
C29_OtherModalStaysOpen ==
    [][\A p \in Procs :
        (Completes(p) /\ OtherModalOpen(p))
            => /\ app'.isModalOpen
               /\ app'.selectedEvent = app.selectedEvent]_vars

\* the step is navigateDate in the direction, in month view
Navigates(direction) ==
    /\ app.mounted /\ app.view = "month"
    /\ StaysInYear(direction)
    /\ app'.currentDate # app.currentDate
    /\ app'.currentDate = Navigated(app.view, app.currentDate, direction)

\* C30: in month view navigateDate('next') moves currentDate into the month
\* after the current one and navigateDate('prev') into the month before it,
\* for every current date, the 29th, 30th and 31st included; so 'next' and
\* then 'prev' return to the month of the start.
C30_NavigateByOneMonth ==
    [][/\ Navigates("next")
           => /\ MonthOf(app'.currentDate) = MonthOf(app.currentDate) + 1
              /\ MonthOf(Navigated("month", app'.currentDate, "prev"))
                     = MonthOf(app.currentDate)
       /\ Navigates("prev")
           => MonthOf(app'.currentDate) = MonthOf(app.currentDate) - 1]_vars

====
